---------------------------- MODULE Spec2Model ----------------------------
(***************************************************************************)
(* Heidi EMR Agent: the multi-frame fill engine (side panel quick-fill,    *)
(* content script) and the workflow executor.                              *)
(*                                                                         *)
(*   FillSpec : one fill of a page made of NumFrames frames, by each of    *)
(*              the three writers, and the reconciliation of the frames'  *)
(*              results.                                                   *)
(*   Spec     : one workflow run driven from the side panel                *)
(*              (handleRunWorkflow -> WorkflowExecutor.executeWorkflow).   *)
(*   LiveSpec : Spec with weak fairness on the executor's own steps.       *)
(***************************************************************************)
EXTENDS Integers, Sequences, FiniteSets, TLC

(* ------------------------------ bounds -------------------------------- *)
\* frames of the tab; frame 1 is the top document (results[0])
NumFrames == 2
\* longest workflow configuration explored
MaxSteps == 2

Frames == 1..NumFrames

(* ------------------------------ strings ------------------------------- *)
\* A string is a sequence of characters; "" is << >>.
Lower(c) ==
  CASE c = "M" -> "m"
    [] c = "O" -> "o"
    [] c = "N" -> "n"
    [] OTHER -> c

ToLowerCase(s) == [i \in DOMAIN s |-> Lower(s[i])]

\* String.prototype.includes: t occurs in s as a contiguous substring
Includes(s, t) ==
  \E i \in 0..(Len(s) - Len(t)) : SubSeq(s, i + 1, i + Len(t)) = t

\* what JSON.parse may hand back as a value of the object: a string, or
\* something else.  A value that is not a string is written as the mark "#"
\* followed by the characters String(value) gives (the number 5 is "#5").
NonString(str) == <<"#">> \o str
IsString(v) == v = << >> \/ Head(v) # "#"
ToStr(v) == IF IsString(v) THEN v ELSE Tail(v)
\* field identities (ids / names of elements), as strings
IdA == <<"a">>
IdB == <<"b">>
Ids == {IdA, IdB}
\* a key holding a double quote, which no element of the page bears
IdQ == <<"q", "\"">>

\* whether `[name="${fieldId}"]` is a selector querySelector accepts: a
\* double quote inside the key ends the string early and the rest does not
\* parse (SyntaxError)
SelectorValid(fieldId) == \A i \in DOMAIN fieldId : fieldId[i] # "\""

\* the literal list ['true', '1', 'yes', 'on']
TruthyStrings ==
  { <<"t","r","u","e">>, <<"1">>, <<"y","e","s">>, <<"o","n">> }

(* ------------------------------ elements ------------------------------ *)
\* What getElementById(fieldId) || querySelector('[name="fieldId"]')
\* resolves to in one frame: NoElem when nothing matches, else an element.
\*   kind    : text | checkbox | radio (HTMLInputElement by type),
\*             textarea, select, div (any other element)
\*   byId    : located by id (so element.id = fieldId) or by name
\*   throws  : an operation on the element throws (caught by the writer)
\*   events  : the events the element has been the target of so far
\*   focusFires : element.focus() makes the browser fire a focus event at it
\*             (its document has focus, it is focusable and not yet active)
NoOpts == << >>
OptsMale == << [value |-> <<"M">>, text |-> <<"M","a">>] >>
OptsSwap == << [value |-> <<"a">>, text |-> <<"M">>],
               [value |-> <<"M">>, text |-> <<"a">>] >>

Elem(k, v, c, o, b, t) ==
  [kind |-> k, value |-> v, checked |-> c, opts |-> o, byId |-> b,
   throws |-> t, events |-> << >>, focusFires |-> FALSE]

NoElem == Elem("none", << >>, FALSE, NoOpts, FALSE, FALSE)

DispatchSeq == <<"focus", "input", "change", "blur">>

\* element.focus(), the first statement of every writer's try block
focus(el) ==
  IF el.focusFires
  THEN [el EXCEPT !.events = Append(@, "focus"), !.focusFires = FALSE]
  ELSE el

\* dispatchEvents / dispatchInputEvents: focus, input, change, blur
dispatchEvents(el) == [el EXCEPT !.events = @ \o DispatchSeq]

\* index of the first option satisfying the inline writers' single test
\* (opt.value === value || opt.text.toLowerCase().includes(value.toLowerCase())),
\* 0 when none does
InlineOptionTest(opt, value) ==
  opt.value = value \/ Includes(ToLowerCase(opt.text), ToLowerCase(value))

FirstInlineOption(opts, value) ==
  IF \E i \in DOMAIN opts : InlineOptionTest(opts[i], value)
  THEN CHOOSE i \in DOMAIN opts :
         /\ InlineOptionTest(opts[i], value)
         /\ \A j \in 1..(i - 1) : ~InlineOptionTest(opts[j], value)
  ELSE 0

\* fillField's two passes: exact value over the whole list first, then
\* case-insensitive text (equal or containing)
FirstExactOption(opts, value) ==
  IF \E i \in DOMAIN opts : opts[i].value = value
  THEN CHOOSE i \in DOMAIN opts :
         /\ opts[i].value = value
         /\ \A j \in 1..(i - 1) : opts[j].value # value
  ELSE 0

TextOptionTest(opt, value) ==
  \/ ToLowerCase(opt.text) = ToLowerCase(value)
  \/ Includes(ToLowerCase(opt.text), ToLowerCase(value))

FirstTextOption(opts, value) ==
  IF \E i \in DOMAIN opts : TextOptionTest(opts[i], value)
  THEN CHOOSE i \in DOMAIN opts :
         /\ TextOptionTest(opts[i], value)
         /\ \A j \in 1..(i - 1) : ~TextOptionTest(opts[j], value)
  ELSE 0

IsInput(el) == el.kind \in {"text", "checkbox", "radio"}

\* A write's outcome: the element afterwards and what the writer records
\* for the field: "filled", "failed" or "none" (nothing pushed).
Wrote(el, out) == [el |-> el, out |-> out]

\* side panel App.tsx handleAutoFill, the body of the per-field try block
WriteAuto(el0, value) ==
  IF el0.throws THEN Wrote(el0, "failed")
  ELSE LET el == focus(el0) IN
  IF el.kind = "checkbox" THEN
    Wrote(dispatchEvents([el EXCEPT !.checked =
                            ToLowerCase(value) \in TruthyStrings]), "filled")
  ELSE IF el.kind = "radio" THEN
    Wrote(dispatchEvents([el EXCEPT !.checked =
                            IF el.value = value THEN TRUE ELSE @]), "filled")
  ELSE IF el.kind \in {"text", "textarea"} THEN
    Wrote(dispatchEvents([el EXCEPT !.value = value]), "filled")
  ELSE IF el.kind = "select" THEN
    LET i == FirstInlineOption(el.opts, value) IN
      IF i # 0
      THEN Wrote(dispatchEvents([el EXCEPT !.value = el.opts[i].value]), "filled")
      ELSE Wrote(el, "failed")
  ELSE Wrote(el, "filled")

\* the workflow-era side panel's handleQuickFill, body of the try block
WriteQuick(el0, value) ==
  IF el0.throws THEN Wrote(el0, "failed")
  ELSE LET el == focus(el0) IN
  IF IsInput(el) \/ el.kind = "textarea" THEN
    Wrote(dispatchEvents([el EXCEPT !.value = ToStr(value)]), "filled")
  ELSE IF el.kind = "select" THEN
    LET i == FirstInlineOption(el.opts, value) IN
      IF ~IsString(value)
      THEN Wrote(el, IF el.opts = << >> THEN "none" ELSE "failed")
      ELSE IF i # 0
      THEN Wrote(dispatchEvents([el EXCEPT !.value = el.opts[i].value]), "filled")
      ELSE Wrote(el, "none")
  ELSE Wrote(el, "none")

\* WorkflowExecutor.executeAutoFill, body of the try block (catch ignores)
WriteWorkflow(el0, value) ==
  IF el0.throws THEN Wrote(el0, "none")
  ELSE LET el == focus(el0) IN
  IF IsInput(el) \/ el.kind = "textarea" THEN
    Wrote(dispatchEvents([el EXCEPT !.value = ToStr(value)]), "filled")
  ELSE IF el.kind = "select" THEN
    LET i == FirstInlineOption(el.opts, value) IN
      IF ~IsString(value) THEN Wrote(el, "none")
      ELSE IF i # 0
      THEN Wrote(dispatchEvents([el EXCEPT !.value = el.opts[i].value]), "filled")
      ELSE Wrote(el, "none")
  ELSE Wrote(el, "none")

\* content script fillField(element, value): TRUE is "filled"
fillField(el0, fieldId, value) ==
  IF el0.throws THEN Wrote(el0, "failed")
  ELSE LET el == focus(el0) IN
  IF el.kind = "checkbox" THEN
    LET shouldCheck == ToLowerCase(value) \in TruthyStrings IN
      IF el.checked # shouldCheck
      THEN Wrote(dispatchEvents([el EXCEPT !.checked = shouldCheck]), "filled")
      ELSE Wrote(el, "filled")
  ELSE IF el.kind = "radio" THEN
    IF el.value = value \/ (el.byId /\ fieldId = value)
    THEN Wrote(dispatchEvents([el EXCEPT !.checked = TRUE]), "filled")
    ELSE Wrote(el, "filled")
  ELSE IF el.kind \in {"text", "textarea"} THEN
    Wrote(dispatchEvents([el EXCEPT !.value = value]), "filled")
  ELSE IF el.kind = "select" THEN
    LET i == FirstExactOption(el.opts, value)
        j == FirstTextOption(el.opts, value) IN
      IF i # 0
      THEN Wrote(dispatchEvents([el EXCEPT !.value = el.opts[i].value]), "filled")
      ELSE IF j # 0
      THEN Wrote(dispatchEvents([el EXCEPT !.value = el.opts[j].value]), "filled")
      ELSE Wrote(el, "failed")
  ELSE Wrote(el, "filled")

\* a writer that adds to a text value where it should replace it
WriteContentAppending(el, fieldId, value) ==
  LET w == fillField(el, fieldId, value) IN
    IF el.kind \in {"text", "textarea"} /\ w.out = "filled"
    THEN Wrote([w.el EXCEPT !.value = el.value \o value], "filled")
    ELSE w

\* content script fillForm, one mapping entry: a located element that is
\* not an input, textarea or select fails without being written
WriteContent(el, fieldId, value) ==
  IF el.kind = "div" THEN Wrote(el, "failed")
  ELSE fillField(el, fieldId, value)

WriteBy(writer, el, fieldId, value) ==
  CASE writer = "auto" -> WriteAuto(el, value)
    [] writer = "quick" -> WriteQuick(el, value)
    [] writer = "workflow" -> WriteWorkflow(el, value)
    [] writer = "content" -> WriteContent(el, fieldId, value)


(* --------------------------- one frame's fill -------------------------- *)
\* A mapping is the ordered list of Object.entries(mapping): records
\* [id, value] with distinct ids.  A frame maps each identity to the element
\* the lookup resolves to (NoElem when the frame has none).
Keys(mapping) == {mapping[i].id : i \in DOMAIN mapping}

NoResult == [responded |-> FALSE, threw |-> FALSE, filled |-> << >>,
             failed |-> << >>, notFound |-> << >>]

EmptyResult == [responded |-> TRUE, threw |-> FALSE, filled |-> << >>,
                failed |-> << >>, notFound |-> << >>]

\* the injected function threw: it returns nothing
ThrewResult == [NoResult EXCEPT !.threw = TRUE]

\* document.getElementById(fieldId) || document.querySelector(`[name="${fieldId}"]`)
Lookup(frame, fieldId) ==
  IF fieldId \in DOMAIN frame THEN frame[fieldId] ELSE NoElem

\* the lookup itself throws: nothing bears the id, so querySelector is
\* called, with a selector it rejects; no writer has the lookup in its try
LookupThrows(frame, fieldId) ==
  ~Lookup(frame, fieldId).byId /\ ~SelectorValid(fieldId)

\* the for (const [fieldId, value] of Object.entries(mapping)) loop of a
\* writer run in one frame, from entry i on: the frame afterwards and the
\* result object the injected function returns
RECURSIVE FillLoop(_, _, _, _, _)
FillLoop(writer, frame, mapping, i, acc) ==
  IF i > Len(mapping) THEN [frame |-> frame, result |-> acc]
  ELSE
    LET fieldId == mapping[i].id
        el == Lookup(frame, fieldId)
    IN
      IF LookupThrows(frame, fieldId) THEN
        [frame |-> frame, result |-> ThrewResult]
      ELSE IF el = NoElem THEN
        FillLoop(writer, frame, mapping, i + 1,
                 IF writer = "content"
                 THEN [acc EXCEPT !.notFound = Append(@, fieldId)]
                 ELSE acc)
      ELSE
        LET w == WriteBy(writer, el, fieldId, mapping[i].value) IN
          FillLoop(writer, [frame EXCEPT ![fieldId] = w.el], mapping, i + 1,
                   CASE w.out = "filled" -> [acc EXCEPT !.filled = Append(@, fieldId)]
                     [] w.out = "failed" -> [acc EXCEPT !.failed = Append(@, fieldId)]
                     [] OTHER -> acc)

FrameFill(writer, frame, mapping) ==
  FillLoop(writer, frame, mapping, 1, EmptyResult)

(* ----------------------- reconciling the frames ------------------------ *)
Range(s) == {s[i] : i \in DOMAIN s}

\* no processed check at all (what a plain flatMap would do)
PushAll(list, out, processed) ==
  [out |-> out \o list, processed |-> processed \cup Range(list)]

\* list.forEach(f => { if (!processed.has(f)) { out.push(f); processed.add(f) } })
RECURSIVE PushNew(_, _, _)
PushNew(list, out, processed) ==
  IF list = << >> THEN [out |-> out, processed |-> processed]
  ELSE IF Head(list) \in processed
       THEN PushNew(Tail(list), out, processed)
       ELSE PushNew(Tail(list), Append(out, Head(list)),
                    processed \cup {Head(list)})

\* fillResults.forEach(frameResult => ...): frames in enumeration order,
\* each frame's filled list before its failed list
RECURSIVE MergeFrames(_, _, _)
MergeFrames(results, i, acc) ==
  IF i > Len(results) THEN acc
  ELSE IF ~results[i].responded THEN MergeFrames(results, i + 1, acc)
  ELSE
    LET a == PushNew(results[i].filled, acc.filled, acc.processed)
        b == PushNew(results[i].failed, acc.failed, a.processed)
    IN MergeFrames(results, i + 1,
                   [filled |-> a.out, failed |-> b.out, processed |-> b.processed])

\* Object.keys(mapping).forEach(id => { if (!processed.has(id)) notFound.push(id) })
RECURSIVE UnprocessedKeys(_, _, _)
UnprocessedKeys(mapping, i, processed) ==
  IF i > Len(mapping) THEN << >>
  ELSE IF mapping[i].id \in processed
       THEN UnprocessedKeys(mapping, i + 1, processed)
       ELSE <<mapping[i].id>> \o UnprocessedKeys(mapping, i + 1, processed)

\* side panel, aggregation of the frames' fill results
AggregateFill(results, mapping) ==
  LET m == MergeFrames(results, 1,
                       [filled |-> << >>, failed |-> << >>, processed |-> {}])
  IN [filled |-> m.filled, failed |-> m.failed,
      notFound |-> UnprocessedKeys(mapping, 1, m.processed)]

\* ---- merging the frames' scans: each entry is [alive, fields]
\* a merge that gives up at the first frame without result
RECURSIVE FlatMapUntilDead(_, _)
FlatMapUntilDead(scan, i) ==
  IF i > Len(scan) \/ ~scan[i].alive THEN << >>
  ELSE scan[i].fields \o FlatMapUntilDead(scan, i + 1)

\* scanResults.flatMap(r => r.result || [])
RECURSIVE FlatMapFields(_, _)
FlatMapFields(scan, i) ==
  IF i > Len(scan) THEN << >>
  ELSE (IF scan[i].alive THEN scan[i].fields ELSE << >>) \o FlatMapFields(scan, i + 1)


(* ------------------------------- state --------------------------------- *)
VARIABLES
  \* ---- one fill of a page (FillSpec)
  fpc,          \* "filling" (awaiting the fill), "done", "error"
  page,         \* frame -> identity -> element: the tab's documents
  mapping,      \* the oracle's mapping being written
  writer,       \* which writer ran: "auto", "quick", "content", "" before
  fillResults,  \* the per-frame results returned by executeScript
  aggregated,   \* the reconciled outcome {filled, failed, notFound}
  \* ---- one widget written to (WriteSpec)
  target,       \* the widget
  request,      \* which writer is asked to write which value under which id
  writes,       \* the writes made so far: widget before, after, what was reported
  \* ---- one element met by a scanner (ScanSpec)
  scanner,      \* which scanner: "content", "panel", "quick", "workflow"
  element,      \* the element: style, box, type, id, and what may label it
  descriptor,   \* what the scanner made of it
  \* ---- one tab scanned twice (MergeSpec)
  tabFields,    \* frame -> the descriptors its scan returns, by identity
  merged,       \* the scans made: results as returned, and the merged list
  \* ---- one derivation of a workflow configuration (ConfigSpec)
  derivation,   \* the function called and its argument
  derived,      \* the configuration's steps it returned
  soapWorkflow, \* SOAP_WORKFLOW.steps as the module holds them
  \* ---- the side panel over several runs (PanelSpec)
  mode,         \* mode: "quick-fill" or "workflow"
  status,       \* status, as the statuses of steps are left out
  handlers,     \* the calls of handleQuickFill / handleRunWorkflow under way
  executors,    \* every WorkflowExecutor created: its run and its aborted flag
  refCurrent,   \* executorRef.current: 0 for null, or which executor
  runs,         \* how many runs were started
  abortClicks,  \* each click on Abort: during which run, on which executor
  \* ---- side panel, workflow mode
  uiStatus,     \* status: "idle", "running", "done", "error"
  stepStatuses, \* StepStatus per step (indexed by step.id - 1 in the code)
  executorRef,  \* executorRef.current is an executor
  \* ---- WorkflowExecutor
  workflow,     \* the WorkflowConfig's steps
  aborted,      \* this.aborted
  pc,           \* where the run is suspended
  idx,          \* position of the for loop in workflow.steps (1-based)
  returned,     \* executeWorkflow's return value: "none", "true", "false"
  events,       \* onStepStart / onStepComplete callbacks delivered, in order
  lastLog,      \* the last run-level onLog message
  lastResult,   \* the StepResult of the step in progress, once it has one
  slept,        \* steps after which the post-delay was slept
  \* ---- locals of the step in progress (kept until the next step starts)
  elapsed,      \* Date.now() - startTime in executeWait
  probe,        \* frame -> what the last injected query met in that frame
  clicked,      \* frames in which element.click() ran
  diagRan,      \* the timeout diagnostics script was run
  diagPage,     \* frame -> the interactive elements it held at that time
  diagLog,      \* the element lines logged by the timeout diagnostics
  scanResults,  \* executeAutoFill: what the scan returned, frame by frame
  allFields,    \* executeAutoFill: the merged scan
  oracleCalls,  \* executeAutoFill: calls of generateMapping in this step
  wfMapping,    \* executeAutoFill: the mapping being written
  fillCalls,    \* executeAutoFill: calls of the write-back script in this step
  stepFillResults \* executeAutoFill: what the write-back returned, frame by frame

writeVars == <<target, request, writes>>
scanVars == <<scanner, element, descriptor>>
mergeVars == <<tabFields, merged>>
configVars == <<derivation, derived, soapWorkflow>>
panelVars == <<mode, status, handlers, executors, refCurrent, runs, abortClicks>>
fillVars == <<fpc, page, mapping, writer, fillResults, aggregated,
              target, request, writes, scanner, element, descriptor,
              tabFields, merged, derivation, derived, soapWorkflow,
              mode, status, handlers, executors, refCurrent, runs, abortClicks>>
uiVars == <<uiStatus, stepStatuses, executorRef>>
runVars == <<workflow, aborted, pc, idx, returned, events, lastLog, lastResult, slept>>
waitVars == <<elapsed, diagRan, diagPage, diagLog>>
autoVars == <<scanResults, allFields, oracleCalls, wfMapping, fillCalls,
              stepFillResults>>
stepVars == <<elapsed, probe, clicked, diagRan, diagPage, diagLog,
              scanResults, allFields, oracleCalls, wfMapping, fillCalls,
              stepFillResults>>
wfVars == <<uiStatus, stepStatuses, executorRef, workflow, aborted, pc, idx,
            returned, events, lastLog, lastResult, slept, elapsed, probe,
            clicked, diagRan, diagPage, diagLog, scanResults, allFields,
            oracleCalls, wfMapping, fillCalls, stepFillResults>>
vars == <<fpc, page, mapping, writer, fillResults, aggregated, target, request, writes,
          scanner, element, descriptor, tabFields, merged, derivation, derived,
          soapWorkflow,
          mode, status, handlers, executors, refCurrent, runs, abortClicks,
          uiStatus, stepStatuses, executorRef, workflow, aborted, pc, idx,
          returned, events, lastLog, lastResult, slept, elapsed, probe,
          clicked, diagRan, diagPage, diagLog, scanResults, allFields,
          oracleCalls, wfMapping, fillCalls, stepFillResults>>


(* ----------------------- workflow configuration ------------------------ *)
\* executeWait: const pollInterval = 500, step.timeout || 5000
PollInterval == 500
DefaultTimeout == 5000
\* an optional numeric field that is not set
Undefined == -1

\* a step of a configuration of workflow.ts
Step(id, action, description, waitAfter, timeout) ==
  [id |-> id, action |-> action, description |-> description,
   waitAfter |-> waitAfter, timeout |-> timeout]

\* SOAP_WORKFLOW.steps (selectors left out, descriptions without their prefix)
SoapSteps ==
  << Step(1, "AI_AUTO_FILL", "Filling Encounter Form", 1000, Undefined),
     Step(2, "NAVIGATE_CLICK_IFRAME", "Saving Encounter", 2000, Undefined),
     Step(3, "NAVIGATE_WAIT", "Waiting for page to stabilize", Undefined, 10000),
     Step(4, "NAVIGATE_CLICK_IFRAME", "Opening Clinical menu", 500, Undefined),
     Step(5, "NAVIGATE_CLICK_IFRAME", "Selecting SOAP", 2000, Undefined),
     Step(6, "NAVIGATE_WAIT", "Waiting for SOAP form", Undefined, 8000),
     Step(7, "AI_AUTO_FILL", "Filling SOAP Note", 1000, Undefined),
     Step(8, "NAVIGATE_CLICK_IFRAME", "Saving SOAP Note", 1000, Undefined) >>

\* QUICK_FILL_WORKFLOW.steps, DEBUG_WORKFLOW.steps
QuickFillSteps == << Step(1, "AI_AUTO_FILL", "Analyzing and filling form", 500, Undefined) >>
DebugSteps == << Step(1, "DEBUG_SCAN", "Scanning page", Undefined, Undefined) >>

Actions == {"NAVIGATE_CLICK", "NAVIGATE_CLICK_IFRAME", "NAVIGATE_WAIT",
            "AI_AUTO_FILL", "DEBUG_SCAN"}

\* a WorkflowStep without its id: action, whether a selector is given,
\* waitAfter (0 when not set) and timeout
StepTemplates ==
  { [action |-> a, selector |-> sel, waitAfter |-> w, timeout |-> t] :
      a \in Actions, sel \in BOOLEAN, w \in {0, 2 * PollInterval},
      t \in {Undefined, 0, 2 * PollInterval} }

\* canonical templates: a field the step never reads is left unset (the
\* selector of a fill or scan step, the timeout of any step but a wait with
\* a selector, the post-delay of a step that fails for want of a selector)
UsedTemplates ==
  { t \in StepTemplates :
      /\ (t.action \in {"AI_AUTO_FILL", "DEBUG_SCAN"} => ~t.selector)
      /\ (t.action # "NAVIGATE_WAIT" \/ ~t.selector => t.timeout = Undefined)
      /\ (t.action \notin {"AI_AUTO_FILL", "DEBUG_SCAN"} /\ ~t.selector
            => t.waitAfter = 0) }

WithId(t, i) ==
  [id |-> i, action |-> t.action, selector |-> t.selector,
   waitAfter |-> t.waitAfter, timeout |-> t.timeout]

\* the configurations explored: 1..MaxSteps steps with ids 1, 2, ...
Workflows ==
  UNION { { [i \in 1..n |-> WithId(ts[i], i)] : ts \in [1..n -> UsedTemplates] } :
          n \in 1..MaxSteps }

NoStepResult == [step |-> 0, success |-> FALSE, message |-> "", filled |-> << >>]

NoProbe == [f \in Frames |-> "nomatch"]

\* the workflow side at rest: side panel idle, no executor yet
WorkflowIdle(w) ==
  /\ uiStatus = "idle"
  /\ stepStatuses = << >>
  /\ executorRef = FALSE
  /\ workflow = w
  /\ aborted = FALSE
  /\ pc = "ui_idle"
  /\ idx = 0
  /\ returned = "none"
  /\ events = << >>
  /\ lastLog = ""
  /\ lastResult = NoStepResult
  /\ slept = {}
  /\ elapsed = 0
  /\ probe = NoProbe
  /\ clicked = {}
  /\ diagRan = FALSE
  /\ diagPage = [f \in Frames |-> [alive |-> TRUE, elems |-> {}]]
  /\ diagLog = [f \in Frames |-> {}]
  /\ scanResults = << >>
  /\ allFields = << >>
  /\ oracleCalls = 0
  /\ wfMapping = << >>
  /\ fillCalls = 0
  /\ stepFillResults = << >>

(* ------------------------------ FillSpec ------------------------------- *)
ValMa == <<"M", "a">>
ValB == <<"b">>

\* elements a frame may hold for an identity in a fill
FillElems ==
  { NoElem,
    Elem("text", << >>, FALSE, NoOpts, TRUE, FALSE),
    Elem("text", << >>, FALSE, NoOpts, TRUE, TRUE),
    Elem("select", << >>, FALSE, OptsMale, TRUE, FALSE),
    Elem("div", << >>, FALSE, NoOpts, TRUE, FALSE) }

\* non-empty mappings over the identities, keys in a fixed order
FillMappings ==
  { <<[id |-> IdA, value |-> v]>> : v \in {ValMa, ValB} } \cup
  { <<[id |-> IdB, value |-> v]>> : v \in {ValMa, ValB} } \cup
  { <<[id |-> IdA, value |-> v], [id |-> IdB, value |-> w]>> :
      v \in {ValMa, ValB}, w \in {ValMa, ValB} }

NoOutcome == [filled |-> << >>, failed |-> << >>, notFound |-> << >>]

\* no single write under way
NoRequest == [writer |-> "", fieldId |-> << >>, value |-> << >>]
WriteIdle == target = NoElem /\ request = NoRequest /\ writes = << >>

\* no scan of an element, no scan of a tab, no derivation under way
NoDescriptor == [scanned |-> FALSE, candidate |-> FALSE, label |-> << >>,
                 pushed |-> FALSE]
ScanIdle == scanner = "" /\ element = << >> /\ descriptor = NoDescriptor
MergeIdle == tabFields = << >> /\ merged = << >>
NoDerivation == [fn |-> "", arg |-> 0, done |-> FALSE]
ConfigIdle ==
  derivation = NoDerivation /\ derived = << >> /\ soapWorkflow = SoapSteps
\* the side panel as it is mounted
PanelIdle ==
  /\ mode = "quick-fill"
  /\ status = "idle"
  /\ handlers = << >>
  /\ executors = << >>
  /\ refCurrent = 0
  /\ runs = 0
  /\ abortClicks = << >>
OthersIdle == ScanIdle /\ MergeIdle /\ ConfigIdle /\ PanelIdle

\* mappings with a key that makes the name lookup throw
QuoteMappings ==
  { <<[id |-> IdA, value |-> ValB], [id |-> IdQ, value |-> ValB]>>,
    <<[id |-> IdQ, value |-> ValB], [id |-> IdA, value |-> ValB]>> }

FillInit ==
  /\ fpc = "filling"
  /\ page \in [Frames -> [Ids -> FillElems]]
  /\ mapping \in FillMappings \cup QuoteMappings
  /\ writer = ""
  /\ fillResults = << >>
  /\ aggregated = NoOutcome
  /\ WriteIdle
  /\ OthersIdle
  /\ WorkflowIdle(<< >>)

\* chrome.scripting.executeScript({allFrames: true, func, args: [mapping]}):
\* the function runs in every frame that answers; a frame that does not
\* answer yields an entry without result
RunInFrames(w, resp) ==
  LET r == [f \in Frames |-> FrameFill(w, page[f], mapping)] IN
    /\ page' = [f \in Frames |-> IF resp[f] THEN r[f].frame ELSE page[f]]
    /\ fillResults' = [f \in Frames |-> IF resp[f] THEN r[f].result ELSE NoResult]

\* what the side panel gets back: the frames' results, a frame whose
\* function threw being an entry without result; or, when a function threw,
\* the rejection of executeScript, caught by the handler (status error)
FillSettles ==
  \/ /\ aggregated' = AggregateFill(fillResults', mapping)
     /\ fpc' = "done"
  \/ /\ \E f \in Frames : fillResults'[f].threw
     /\ aggregated' = aggregated
     /\ fpc' = "error"

\* App.tsx handleAutoFill, from the fill's return to setStatus('done')
HandleAutoFillFill ==
  /\ fpc = "filling"
  /\ \E resp \in [Frames -> BOOLEAN] : RunInFrames("auto", resp)
  /\ FillSettles
  /\ writer' = "auto"
  /\ UNCHANGED <<mapping, writeVars, scanVars, mergeVars, configVars, panelVars,
                 wfVars>>

\* the workflow-era side panel's handleQuickFill, same stretch
HandleQuickFillFill ==
  /\ fpc = "filling"
  /\ \E resp \in [Frames -> BOOLEAN] : RunInFrames("quick", resp)
  /\ FillSettles
  /\ writer' = "quick"
  /\ UNCHANGED <<mapping, writeVars, scanVars, mergeVars, configVars, panelVars,
                 wfVars>>

\* content script, FILL_FORM message: fillForm(mapping) in its own
\* document; the listener's catch answers {success: false} when it throws
ContentFillForm ==
  /\ fpc = "filling"
  /\ LET r == FrameFill("content", page[1], mapping) IN
       /\ page' = [page EXCEPT ![1] = r.frame]
       /\ fillResults' = <<r.result>>
       /\ aggregated' = [filled |-> r.result.filled, failed |-> r.result.failed,
                         notFound |-> r.result.notFound]
       /\ fpc' = (IF r.result.threw THEN "error" ELSE "done")
  /\ writer' = "content"
  /\ UNCHANGED <<mapping, writeVars, scanVars, mergeVars, configVars, panelVars,
                 wfVars>>

\* the executeScript promise rejects: the handler's catch sets status error
FillScriptRejects ==
  /\ fpc = "filling"
  /\ fpc' = "error"
  /\ UNCHANGED <<page, mapping, writer, fillResults, aggregated, writeVars,
                 scanVars, mergeVars, configVars, panelVars,
                 wfVars>>

FillNext ==
  \/ HandleAutoFillFill
  \/ HandleQuickFillFill
  \/ ContentFillForm
  \/ FillScriptRejects

FillSpec == FillInit /\ [][FillNext]_vars

(* ------------------------------ WriteSpec ------------------------------ *)
\* One widget, located under the identity IdA, is written to by one of the
\* four writers, several times with the same value.
MaxWrites == 2

Writers == {"auto", "quick", "workflow", "content"}

ValOn == <<"O", "n">>
ValNo == <<"n", "o">>
ValM == <<"M">>

WriteValues == {<< >>, ValOn, ValNo, ValM, <<"M", "a">>, IdA, IdB}

\* the widgets written to: every kind, checkboxes and radios in both
\* states, selects over three option lists, an element whose handling
\* throws; each with and without a focus event fired by element.focus()
QuietElems ==
  { Elem(k, << >>, FALSE, NoOpts, TRUE, FALSE) : k \in {"text", "textarea", "div"} } \cup
  { Elem("text", << >>, FALSE, NoOpts, TRUE, TRUE) } \cup
  { Elem("checkbox", ValOn, c, NoOpts, TRUE, FALSE) : c \in BOOLEAN } \cup
  { Elem("radio", v, c, NoOpts, b, FALSE) : v \in {ValM, IdB}, c \in BOOLEAN, b \in BOOLEAN } \cup
  { Elem("select", << >>, FALSE, o, TRUE, FALSE) : o \in {NoOpts, OptsMale, OptsSwap} }

WriteElems ==
  QuietElems \cup { [e EXCEPT !.focusFires = TRUE] : e \in QuietElems }

WriteInit ==
  /\ target \in WriteElems
  /\ request \in [writer : Writers, fieldId : {IdA}, value : WriteValues]
  /\ writes = << >>
  /\ fpc = "idle"
  /\ page = [f \in Frames |-> [i \in Ids |-> NoElem]]
  /\ mapping = << >>
  /\ writer = ""
  /\ fillResults = << >>
  /\ aggregated = NoOutcome
  /\ OthersIdle
  /\ WorkflowIdle(<< >>)

\* one run of the writer on the widget
Write ==
  /\ request # NoRequest
  /\ Len(writes) < MaxWrites
  /\ LET w == WriteBy(request.writer, target, request.fieldId, request.value) IN
       /\ target' = w.el
       /\ writes' = Append(writes, [before |-> target, after |-> w.el, out |-> w.out])
  /\ UNCHANGED <<request, fpc, page, mapping, writer, fillResults, aggregated,
                 scanVars, mergeVars, configVars, panelVars,
                 wfVars>>

WriteSpec == WriteInit /\ [][Write]_vars


(* ------------------------------ ScanSpec ------------------------------- *)
\* One input, textarea or select of a document is met by the forEach
\* callback of one of the four scanners: the content script's scanPage
\* ("content"), the side panel's scanAllFrames ("panel"), the workflow-era
\* side panel's scanAllFrames ("quick") and the scan of executeAutoFill
\* ("workflow").
Scanners == {"content", "panel", "quick", "workflow"}

\* String.prototype.trim, blanks being the only white space in the model
RECURSIVE TrimStart(_)
TrimStart(str) ==
  IF str # << >> /\ Head(str) = " " THEN TrimStart(Tail(str)) ELSE str

RECURSIVE TrimEnd(_)
TrimEnd(str) ==
  IF str # << >> /\ str[Len(str)] = " "
  THEN TrimEnd(SubSeq(str, 1, Len(str) - 1))
  ELSE str

Trim(str) == TrimEnd(TrimStart(str))

\* isElementVisible of the content script and of the side panel
isElementVisible(el) ==
  IF el.display = "none" \/ el.visibility = "hidden" \/ el.opacity = "0"
  THEN FALSE
  ELSE IF el.width = 0 \/ el.height = 0 THEN FALSE ELSE TRUE

\* isVisible of the quick-fill scan and of executeAutoFill
isVisible(el) ==
  IF el.display = "none" \/ el.visibility = "hidden"
  THEN FALSE
  ELSE el.width > 0 /\ el.height > 0

\* the input types a scanner skips
SkippedTypes == {"hidden", "submit", "button", "reset", "image", "file"}
SkippedTypesShort == {"hidden", "submit", "button", "reset", "file"}

\* parentLabel.textContent: the label's own text and that of the controls
\* nested in it (the options of a select, the content of a textarea)
TextContent(label) == label.own \o label.controls

\* findLabelText of the content script
findLabelText(el) ==
  IF el.id # << >> /\ el.forLabel # << >> THEN Trim(el.forLabel)
  ELSE IF Trim(el.enclosing.own) # << >> THEN Trim(el.enclosing.own)
  ELSE IF el.prev.tag = "LABEL" /\ el.prev.text # << >> THEN Trim(el.prev.text)
  ELSE IF el.parentPrev.tag = "LABEL" /\ el.parentPrev.text # << >>
       THEN Trim(el.parentPrev.text)
  ELSE IF el.parentTag = "TD" /\ el.parentPrev.text # << >>
       THEN Trim(el.parentPrev.text)
  ELSE IF el.ariaLabel # << >> THEN Trim(el.ariaLabel)
  ELSE IF el.labelledBy # << >> THEN Trim(el.labelledBy)
  ELSE IF el.title # << >> THEN Trim(el.title)
  ELSE << >>

\* element.getAttribute('aria-label') || element.getAttribute('title') || ''
AriaOrTitle(el) ==
  IF el.ariaLabel # << >> THEN el.ariaLabel
  ELSE IF el.title # << >> THEN el.title ELSE << >>

\* findLabelText of the side panel's scanAllFrames
findLabelTextInline(el) ==
  IF el.id # << >> /\ el.forLabel # << >> THEN Trim(el.forLabel)
  ELSE IF Trim(el.enclosing.own) # << >> THEN Trim(el.enclosing.own)
  ELSE IF el.prev.tag = "LABEL" /\ el.prev.text # << >> THEN Trim(el.prev.text)
  ELSE IF el.parentTag = "TD" /\ el.parentPrev.text # << >>
       THEN Trim(el.parentPrev.text)
  ELSE AriaOrTitle(el)

\* findLabel of the workflow-era side panel's scanAllFrames
findLabelQuick(el) ==
  IF el.id # << >> /\ el.forLabel # << >> THEN Trim(el.forLabel)
  ELSE IF Trim(el.enclosing.own) # << >> THEN Trim(el.enclosing.own)
  ELSE IF el.prev.tag = "LABEL" THEN Trim(el.prev.text)
  ELSE IF el.parentTag = "TD" /\ el.parentPrev.text # << >>
       THEN Trim(el.parentPrev.text)
  ELSE AriaOrTitle(el)

\* findLabel of executeAutoFill's scan
findLabel(el) ==
  IF el.id # << >> /\ el.forLabel # << >> THEN Trim(el.forLabel)
  ELSE IF TextContent(el.enclosing) # << >> THEN Trim(TextContent(el.enclosing))
  ELSE IF el.prev.tag = "LABEL" THEN Trim(el.prev.text)
  ELSE AriaOrTitle(el)

LabelBy(sc, el) ==
  CASE sc = "content" -> findLabelText(el)
    [] sc = "panel" -> findLabelTextInline(el)
    [] sc = "quick" -> findLabelQuick(el)
    [] sc = "workflow" -> findLabel(el)

\* the two tests at the head of the callback: visibility, then input type
Passes(sc, el) ==
  /\ IF sc \in {"content", "panel"} THEN isElementVisible(el) ELSE isVisible(el)
  /\ el.tag = "input" =>
       el.type \notin (IF sc \in {"content", "panel"}
                       THEN SkippedTypes ELSE SkippedTypesShort)

\* if (field.id || field.name || field.label || field.placeholder); the
\* quick-fill scan pushes every field
Identified(sc, el, label) ==
  sc = "quick" \/ el.id # << >> \/ label # << >>

\* the callback on one element
Describe(sc, el) ==
  IF ~Passes(sc, el) THEN [NoDescriptor EXCEPT !.scanned = TRUE]
  ELSE LET label == LabelBy(sc, el) IN
    [scanned |-> TRUE, candidate |-> TRUE, label |-> label,
     pushed |-> Identified(sc, el, label)]

\* texts: none, blanks only, a word after a blank
Texts(c) == {<< >>, <<" ">>, <<" ", c>>}

NoNode == [tag |-> "", text |-> << >>]

\* what may label an element
LabelContexts ==
  [forLabel : Texts("f"),
   enclosing : [own : Texts("e"), controls : {<< >>, <<"o">>}],
   prev : {NoNode} \cup [tag : {"LABEL"}, text : Texts("p")],
   parentTag : {"TD", "DIV"},
   parentPrev : {NoNode} \cup [tag : {"LABEL", "TD"}, text : {<<" ">>, <<" ", "c">>}],
   ariaLabel : Texts("a"),
   labelledBy : {<< >>, <<" ", "l">>},
   title : Texts("t")]

Unlabelled ==
  [forLabel |-> << >>, enclosing |-> [own |-> << >>, controls |-> << >>],
   prev |-> NoNode, parentTag |-> "DIV", parentPrev |-> NoNode,
   ariaLabel |-> << >>, labelledBy |-> << >>, title |-> << >>]

ScanElement(tag, type, id, d, v, o, w, h, lc) ==
  [tag |-> tag, type |-> type, id |-> id, display |-> d, visibility |-> v,
   opacity |-> o, width |-> w, height |-> h, forLabel |-> lc.forLabel,
   enclosing |-> lc.enclosing, prev |-> lc.prev, parentTag |-> lc.parentTag,
   parentPrev |-> lc.parentPrev, ariaLabel |-> lc.ariaLabel,
   labelledBy |-> lc.labelledBy, title |-> lc.title]

InputTypes == SkippedTypes \cup {"text", "checkbox"}

\* the elements met: unlabelled ones of every style, box and type, and
\* visible text inputs with the id a in every label context
ScanElements ==
  { ScanElement("input", t, id, d, v, o, w, h, Unlabelled) :
      t \in InputTypes, id \in {<< >>, IdA}, d \in {"none", "block"},
      v \in {"hidden", "visible"}, o \in {"0", "1"}, w \in {0, 8}, h \in {0, 8} } \cup
  { ScanElement(tag, tag, IdA, d, "visible", o, 8, 8, Unlabelled) :
      tag \in {"textarea", "select"}, d \in {"none", "block"}, o \in {"0", "1"} } \cup
  { ScanElement("input", "text", IdA, "block", "visible", "1", 8, 8, lc) :
      lc \in LabelContexts }

ScanInit ==
  /\ scanner \in Scanners
  /\ element \in ScanElements
  /\ descriptor = NoDescriptor
  /\ fpc = "idle"
  /\ page = [f \in Frames |-> [i \in Ids |-> NoElem]]
  /\ mapping = << >>
  /\ writer = ""
  /\ fillResults = << >>
  /\ aggregated = NoOutcome
  /\ WriteIdle
  /\ MergeIdle
  /\ ConfigIdle
  /\ PanelIdle
  /\ WorkflowIdle(<< >>)

\* the scanner's callback runs on the element
ScanOne ==
  /\ ~descriptor.scanned
  /\ scanner \in Scanners
  /\ descriptor' = Describe(scanner, element)
  /\ UNCHANGED <<scanner, element, fpc, page, mapping, writer, fillResults,
                 aggregated, writeVars, mergeVars, configVars, panelVars,
                 wfVars>>

ScanSpec == ScanInit /\ [][ScanOne]_vars


(* ------------------------------ MergeSpec ------------------------------ *)
\* One tab, whose frames do not change, is scanned twice by a fanned-out
\* scan (scanAllFrames, or the scan of executeAutoFill) and each time the
\* frames' results are merged.
MaxTabFrames == 3

TabFrames == 1..MaxTabFrames

\* what the scan of a frame returns: its descriptors, by identity, in
\* document order
FieldLists == {<< >>, <<IdA>>, <<IdB, IdA>>}

\* chrome.scripting.executeScript with allFrames: one entry per frame, the
\* main frame's first, those of the other frames in no guaranteed order
ResultOrders ==
  { o \in [TabFrames -> TabFrames] :
      o[1] = 1 /\ \A f \in TabFrames : \E k \in TabFrames : o[k] = f }

MergeInit ==
  /\ tabFields \in [TabFrames -> FieldLists]
  /\ merged = << >>
  /\ fpc = "idle"
  /\ page = [f \in Frames |-> [i \in Ids |-> NoElem]]
  /\ mapping = << >>
  /\ writer = ""
  /\ fillResults = << >>
  /\ aggregated = NoOutcome
  /\ WriteIdle
  /\ ScanIdle
  /\ ConfigIdle
  /\ PanelIdle
  /\ WorkflowIdle(<< >>)

\* scanAllFrames: the injected function runs in every frame, a frame that
\* does not answer yields an entry without result; the entries are merged
\* in the order in which they come back
ScanAllFrames ==
  /\ tabFields # << >>
  /\ Len(merged) < 2
  /\ \E o \in ResultOrders, answering \in SUBSET TabFrames :
       LET results == [k \in TabFrames |->
                         [frame |-> o[k], alive |-> o[k] \in answering,
                          fields |-> IF o[k] \in answering
                                     THEN tabFields[o[k]] ELSE << >>]]
       IN merged' = Append(merged, [results |-> results,
                                    allFields |-> FlatMapFields(results, 1)])
  /\ UNCHANGED <<tabFields, fpc, page, mapping, writer, fillResults, aggregated,
                 writeVars, scanVars, configVars, panelVars,
                 wfVars>>

MergeSpec == MergeInit /\ [][ScanAllFrames]_vars


(* ------------------------------ ConfigSpec ----------------------------- *)
\* One workflow configuration is taken from the module of configurations:
\* one of the three constants, or the result of getTestWorkflow or
\* createWorkflowFromStep for an integer argument.
MaxArg == 12

\* Array.prototype.slice(0, end): a negative end counts from the end of the
\* array, and the result stays within the array
Slice0(arr, end) ==
  LET len == Len(arr)
      final == IF end < 0
               THEN (IF len + end < 0 THEN 0 ELSE len + end)
               ELSE (IF end > len THEN len ELSE end)
  IN SubSeq(arr, 1, final)

\* getTestWorkflow(stepCount = 3)
getTestWorkflow(stepCount) == Slice0(SoapSteps, stepCount)

\* a map that leaves the steps as they are
KeepIds(steps) == steps

\* steps.map((step, index) => ({ ...step, id: index + 1 }))
Renumber(steps) == [i \in DOMAIN steps |-> [steps[i] EXCEPT !.id = i]]

\* createWorkflowFromStep(startStep)
createWorkflowFromStep(startStep) ==
  Renumber(SelectSeq(SoapSteps, LAMBDA st : st.id >= startStep))

\* a callback that writes the new id into the step it is given
MapAssigning(steps) == [i \in DOMAIN steps |-> [steps[i] EXCEPT !.id = i]]

\* the steps mapped over, after steps.map((step, index) => ({ ...step,
\* id: index + 1 })): the callback builds a new object and writes to none
MappedOver(steps) == steps

\* SOAP_WORKFLOW.steps after createWorkflowFromStep(startStep): filter
\* returns a new array of the same step objects, so what map does to them
\* shows in SOAP_WORKFLOW
SoapAfterFrom(soap, startStep) ==
  LET kept(i) == soap[i].id >= startStep
      after == MappedOver(SelectSeq(soap, LAMBDA st : st.id >= startStep))
  IN [i \in DOMAIN soap |->
        IF kept(i) THEN after[Cardinality({j \in 1..i : kept(j)})] ELSE soap[i]]

Derivations ==
  [fn : {"SOAP_WORKFLOW", "QUICK_FILL_WORKFLOW", "DEBUG_WORKFLOW", "getTestWorkflow()"},
   arg : {0}, done : {FALSE}] \cup
  [fn : {"getTestWorkflow", "createWorkflowFromStep"},
   arg : (0 - MaxArg)..MaxArg, done : {FALSE}]

ConfigInit ==
  /\ derivation \in Derivations
  /\ derived = << >>
  /\ soapWorkflow = SoapSteps
  /\ fpc = "idle"
  /\ page = [f \in Frames |-> [i \in Ids |-> NoElem]]
  /\ mapping = << >>
  /\ writer = ""
  /\ fillResults = << >>
  /\ aggregated = NoOutcome
  /\ WriteIdle
  /\ ScanIdle
  /\ MergeIdle
  /\ PanelIdle
  /\ WorkflowIdle(<< >>)

\* the configuration is read, or the function called
Derive ==
  /\ derivation.fn # ""
  /\ ~derivation.done
  /\ derivation' = [derivation EXCEPT !.done = TRUE]
  /\ derived' =
       CASE derivation.fn = "SOAP_WORKFLOW" -> SoapSteps
         [] derivation.fn = "QUICK_FILL_WORKFLOW" -> QuickFillSteps
         [] derivation.fn = "DEBUG_WORKFLOW" -> DebugSteps
         [] derivation.fn = "getTestWorkflow()" -> getTestWorkflow(3)
         [] derivation.fn = "getTestWorkflow" -> getTestWorkflow(derivation.arg)
         [] derivation.fn = "createWorkflowFromStep" ->
              createWorkflowFromStep(derivation.arg)
  /\ soapWorkflow' =
       (IF derivation.fn = "createWorkflowFromStep"
        THEN SoapAfterFrom(soapWorkflow, derivation.arg)
        ELSE soapWorkflow)
  /\ UNCHANGED <<fpc, page, mapping, writer, fillResults, aggregated,
                 writeVars, scanVars, mergeVars, panelVars, wfVars>>

ConfigSpec == ConfigInit /\ [][Derive]_vars


(* ------------------------------ PanelSpec ------------------------------ *)
\* The side panel of the workflow build over several runs: the mode, the
\* status, the handlers under way and the executors they create. What
\* executeWorkflow does between its call and its return is the workflow
\* run of Spec; here it returns true or false.
MaxRuns == 2
MaxAborts == 2

Modes == {"quick-fill", "workflow"}

\* const isProcessing = ['scanning', 'mapping', 'filling', 'running'].includes(status)
isProcessing == status \in {"scanning", "mapping", "filling", "running"}

\* a button that is enabled whatever the status
canSubmitAlways == TRUE

\* canSubmit, with the API key and the note given (validation passes): the
\* buttons that start a run are disabled={!canSubmit}
canSubmit == ~isProcessing

\* the handler h has run to its end
Without(hs, h) == [i \in 1..(Len(hs) - 1) |-> IF i < h THEN hs[i] ELSE hs[i + 1]]

PanelInit ==
  /\ PanelIdle
  /\ fpc = "idle"
  /\ page = [f \in Frames |-> [i \in Ids |-> NoElem]]
  /\ mapping = << >>
  /\ writer = ""
  /\ fillResults = << >>
  /\ aggregated = NoOutcome
  /\ WriteIdle
  /\ ScanIdle
  /\ MergeIdle
  /\ ConfigIdle
  /\ WorkflowIdle(<< >>)

\* what no action of the side panel touches
panelFrame == <<fpc, page, mapping, writer, fillResults, aggregated, writeVars,
                scanVars, mergeVars, configVars, wfVars>>

\* a mode button is clicked: disabled={isProcessing}
SetMode ==
  /\ ~isProcessing
  /\ \E m \in Modes \ {mode} : mode' = m
  /\ UNCHANGED <<status, handlers, executors, refCurrent, runs, abortClicks,
                 panelFrame>>

\* handleQuickFill up to its first await: setStatus('scanning'), tabs.query
PanelQuickFill ==
  /\ mode = "quick-fill"
  /\ canSubmit
  /\ runs < MaxRuns
  /\ runs' = runs + 1
  /\ status' = "scanning"
  /\ handlers' = Append(handlers, [run |-> runs + 1, kind |-> "quick", at |-> "query"])
  /\ UNCHANGED <<mode, executors, refCurrent, abortClicks, panelFrame>>

\* handleRunWorkflow up to its first await: setStatus('running'), tabs.query
PanelRunWorkflow ==
  /\ mode = "workflow"
  /\ canSubmit
  /\ runs < MaxRuns
  /\ runs' = runs + 1
  /\ status' = "running"
  /\ handlers' = Append(handlers, [run |-> runs + 1, kind |-> "workflow", at |-> "query"])
  /\ UNCHANGED <<mode, executors, refCurrent, abortClicks, panelFrame>>

\* chrome.tabs.query resolves with a tab: the quick fill goes on to scan;
\* the workflow run creates its executor, stores it in executorRef.current
\* and calls executeWorkflow
QueryResolves(h) ==
  /\ handlers[h].at = "query"
  /\ IF handlers[h].kind = "quick"
     THEN /\ handlers' = [handlers EXCEPT ![h].at = "scan"]
          /\ UNCHANGED <<executors, refCurrent>>
     ELSE /\ executors' = Append(executors, [run |-> handlers[h].run, aborted |-> FALSE])
          /\ refCurrent' = Len(executors) + 1
          /\ handlers' = [handlers EXCEPT ![h].at = "executing"]
  /\ UNCHANGED <<mode, status, runs, abortClicks, panelFrame>>

\* an awaited call rejects, or the handler throws after it (no tab, no
\* field, nothing mapped): catch (error) { setStatus('error') }
HandlerThrows(h) ==
  /\ handlers[h].at \in {"query", "scan", "oracle", "fill"}
  /\ status' = "error"
  /\ handlers' = Without(handlers, h)
  /\ UNCHANGED <<mode, executors, refCurrent, runs, abortClicks, panelFrame>>

\* scanAllFrames resolves with fields: setStatus('mapping'), generateMapping
ScanResolves(h) ==
  /\ handlers[h].at = "scan"
  /\ status' = "mapping"
  /\ handlers' = [handlers EXCEPT ![h].at = "oracle"]
  /\ UNCHANGED <<mode, executors, refCurrent, runs, abortClicks, panelFrame>>

\* generateMapping resolves with a mapping: setStatus('filling'), executeScript
OracleResolves(h) ==
  /\ handlers[h].at = "oracle"
  /\ status' = "filling"
  /\ handlers' = [handlers EXCEPT ![h].at = "fill"]
  /\ UNCHANGED <<mode, executors, refCurrent, runs, abortClicks, panelFrame>>

\* the write-back resolves: setStatus('done')
FillResolves(h) ==
  /\ handlers[h].at = "fill"
  /\ status' = "done"
  /\ handlers' = Without(handlers, h)
  /\ UNCHANGED <<mode, executors, refCurrent, runs, abortClicks, panelFrame>>

\* executeWorkflow returns: setStatus(success ? 'done' : 'error')
ExecutorReturns(h) ==
  /\ handlers[h].at = "executing"
  /\ \E success \in BOOLEAN : status' = (IF success THEN "done" ELSE "error")
  /\ handlers' = Without(handlers, h)
  /\ UNCHANGED <<mode, executors, refCurrent, runs, abortClicks, panelFrame>>

\* handleAbortWorkflow: the Abort button is rendered in workflow mode while
\* status === 'running'; if (executorRef.current) executorRef.current.abort()
HandleAbortWorkflow ==
  /\ mode = "workflow"
  /\ status = "running"
  /\ Len(abortClicks) < MaxAborts
  /\ executors' = (IF refCurrent # 0
                   THEN [executors EXCEPT ![refCurrent].aborted = TRUE]
                   ELSE executors)
  /\ abortClicks' = Append(abortClicks, [run |-> runs, hit |-> refCurrent])
  /\ UNCHANGED <<mode, status, handlers, refCurrent, runs, panelFrame>>

\* the steps the handlers take when what they await settles
HandlerNext ==
  \E h \in DOMAIN handlers :
    \/ QueryResolves(h)
    \/ HandlerThrows(h)
    \/ ScanResolves(h)
    \/ OracleResolves(h)
    \/ FillResolves(h)
    \/ ExecutorReturns(h)

PanelNext ==
  \/ SetMode
  \/ PanelQuickFill
  \/ PanelRunWorkflow
  \/ HandleAbortWorkflow
  \/ HandlerNext

PanelSpec == PanelInit /\ [][PanelNext]_vars

\* every call a handler awaits settles
PanelLiveSpec == PanelInit /\ [][PanelNext]_vars /\ WF_vars(HandlerNext)


(* --------------------------- workflow run ------------------------------ *)
\* what an injected query meets in a frame: an element matching the
\* selector, none, or a frame that returns no result
ProbeValues == {"match", "nomatch", "dead"}
Probes == [Frames -> ProbeValues]
AnyMatch(p) == \E f \in Frames : p[f] = "match"

\* callbacks that index the statuses by step.id
SetStatusShifted(statuses, step, st) ==
  IF step.id + 1 \in DOMAIN statuses
  THEN [statuses EXCEPT ![step.id + 1] = st] ELSE statuses

\* side panel callbacks: next[step.id - 1] = status
SetStatus(statuses, step, st) ==
  IF step.id \in DOMAIN statuses THEN [statuses EXCEPT ![step.id] = st] ELSE statuses

Init ==
  /\ fpc = "idle"
  /\ page = [f \in Frames |-> [i \in Ids |-> NoElem]]
  /\ mapping = << >>
  /\ writer = ""
  /\ fillResults = << >>
  /\ aggregated = NoOutcome
  /\ WriteIdle
  /\ OthersIdle
  /\ \E w \in Workflows : WorkflowIdle(w)

\* points where the run is suspended on a promise or timer, so that other
\* side panel events (the Abort button) can be handled
AwaitPoints == {"query", "click", "click_iframe", "wait_poll", "wait_sleep",
                "wait_diag", "scan", "oracle", "fill", "debug", "sleep"}

\* handleRunWorkflow up to its first await (validation passed)
HandleRunWorkflow ==
  /\ pc = "ui_idle"
  /\ uiStatus' = "running"
  /\ stepStatuses' = [i \in 1..Len(workflow) |-> "pending"]
  /\ pc' = "query"
  /\ UNCHANGED <<executorRef, workflow, aborted, idx, returned, events, lastLog,
                 lastResult, slept, stepVars, fillVars>>

\* chrome.tabs.query resolves with a tab: new WorkflowExecutor(...),
\* executorRef.current = executor, executeWorkflow(selectedWorkflow) entered
TabFound ==
  /\ pc = "query"
  /\ executorRef' = TRUE
  /\ aborted' = FALSE
  /\ idx' = 1
  /\ pc' = "loop"
  /\ UNCHANGED <<uiStatus, stepStatuses, workflow, returned, events, lastLog,
                 lastResult, slept, stepVars, fillVars>>

\* no active tab: throw new Error('No active tab found'), caught: status error
TabMissing ==
  /\ pc = "query"
  /\ uiStatus' = "error"
  /\ pc' = "ui_done"
  /\ UNCHANGED <<stepStatuses, executorRef, workflow, aborted, idx, returned,
                 events, lastLog, lastResult, slept, stepVars, fillVars>>

\* handleAbortWorkflow: the Abort button is rendered while status is running
Abort ==
  /\ uiStatus = "running"
  /\ pc \in AwaitPoints
  /\ aborted' = (IF executorRef THEN TRUE ELSE aborted)
  /\ UNCHANGED <<uiStatus, stepStatuses, executorRef, workflow, pc, idx, returned,
                 events, lastLog, lastResult, slept, stepVars, fillVars>>

\* executeWorkflow returns r; handleRunWorkflow: setStatus(r ? 'done' : 'error')
Return(r, log) ==
  /\ returned' = r
  /\ lastLog' = log
  /\ uiStatus' = (IF r = "true" THEN "done" ELSE "error")
  /\ pc' = "returned"

\* the for loop has no step left: log completion, return true
RunCompletes ==
  /\ pc = "loop"
  /\ idx > Len(workflow)
  /\ Return("true", "completed")
  /\ UNCHANGED <<stepStatuses, executorRef, workflow, aborted, idx, events,
                 lastResult, slept, stepVars, fillVars>>

\* the loop head's test of the flag: if (this.aborted)
LoopIgnoresAbort == FALSE
LoopSeesAbort == aborted

\* loop head with the flag set: log, return false
RunAborted ==
  /\ pc = "loop"
  /\ idx <= Len(workflow)
  /\ LoopSeesAbort
  /\ Return("false", "aborted")
  /\ UNCHANGED <<stepStatuses, executorRef, workflow, aborted, idx, events,
                 lastResult, slept, stepVars, fillVars>>

StartEvent(i) == [ev |-> "start", step |-> i, ok |-> TRUE]
CompleteEvent(i, ok) == [ev |-> "complete", step |-> i, ok |-> ok]

\* a loop that goes on after a failed step as after a successful one
SettleContinuing(res, log) ==
  LET step == workflow[idx] IN
    /\ events' = Append(events, CompleteEvent(idx, res.success))
    /\ stepStatuses' = SetStatus(stepStatuses, step,
                                 IF res.success THEN "success" ELSE "failed")
    /\ lastResult' = res
    /\ elapsed' = 0
    /\ pc' = (IF step.waitAfter # 0 THEN "sleep" ELSE "loop")
    /\ idx' = (IF step.waitAfter # 0 THEN idx ELSE idx + 1)
    /\ UNCHANGED <<returned, lastLog, uiStatus>>

\* a loop that does not move on after a successful step without post-delay
SettleRepeating(res, log) ==
  LET step == workflow[idx] IN
    /\ events' = Append(events, CompleteEvent(idx, res.success))
    /\ stepStatuses' = SetStatus(stepStatuses, step,
                                 IF res.success THEN "success" ELSE "failed")
    /\ lastResult' = res
    /\ elapsed' = 0
    /\ IF ~res.success
       THEN Return("false", log) /\ idx' = idx
       ELSE /\ pc' = (IF step.waitAfter # 0 THEN "sleep" ELSE "loop")
            /\ idx' = idx
            /\ UNCHANGED <<returned, lastLog, uiStatus>>

\* a loop that never sleeps the post-delay
SettleWithoutDelay(res, log) ==
  LET step == workflow[idx] IN
    /\ events' = Append(events, CompleteEvent(idx, res.success))
    /\ stepStatuses' = SetStatus(stepStatuses, step,
                                 IF res.success THEN "success" ELSE "failed")
    /\ lastResult' = res
    /\ elapsed' = 0
    /\ IF ~res.success
       THEN Return("false", log) /\ idx' = idx
       ELSE /\ pc' = "loop"
            /\ idx' = idx + 1
            /\ UNCHANGED <<returned, lastLog, uiStatus>>

\* executeWorkflow after executeStep settled with result res (a thrown error
\* reaches the catch block, which completes the step with success false):
\* onStepComplete, then return false, or the post-delay, or the next turn.
\* The step's clock goes out of scope with it.
Settle(res, log) ==
  LET step == workflow[idx] IN
    /\ events' = Append(events, CompleteEvent(idx, res.success))
    /\ stepStatuses' = SetStatus(stepStatuses, step,
                                 IF res.success THEN "success" ELSE "failed")
    /\ lastResult' = res
    /\ elapsed' = 0
    /\ IF ~res.success
       THEN Return("false", log) /\ idx' = idx
       ELSE /\ pc' = (IF step.waitAfter # 0 THEN "sleep" ELSE "loop")
            /\ idx' = (IF step.waitAfter # 0 THEN idx ELSE idx + 1)
            /\ UNCHANGED <<returned, lastLog, uiStatus>>

Result(ok, msg) == [step |-> idx, success |-> ok, message |-> msg, filled |-> << >>]

StepReturns(ok, msg) == Settle(Result(ok, msg), "step_failed")
\* catch (error): message = error instanceof Error ? error.message : 'Unknown error'
StepThrowsUnknown(msg) == Settle(Result(FALSE, "unknown_error"), "step_error")
\* a catch block that logs and returns without completing the step
StepThrowsUncompleted(msg) ==
  /\ Return("false", "step_error")
  /\ lastResult' = Result(FALSE, msg)
  /\ elapsed' = 0
  /\ UNCHANGED <<events, stepStatuses, idx>>
StepThrows(msg) == Settle(Result(FALSE, msg), "step_error")

NeedsSelector(step) ==
  step.action \in {"NAVIGATE_CLICK", "NAVIGATE_CLICK_IFRAME", "NAVIGATE_WAIT"}

\* where executeStep first suspends: on the call the step makes, or, for a
\* click or wait step without selector, on nothing but the await of its own
\* result
FirstAwait(step) ==
  CASE NeedsSelector(step) /\ ~step.selector -> "no_selector"
    [] step.action = "NAVIGATE_CLICK" -> "click"
    [] step.action = "NAVIGATE_CLICK_IFRAME" -> "click_iframe"
    [] step.action = "NAVIGATE_WAIT" -> "wait_poll"
    [] step.action = "AI_AUTO_FILL" -> "scan"
    [] step.action = "DEBUG_SCAN" -> "debug"

ResetLocals ==
  /\ elapsed' = 0
  /\ probe' = NoProbe
  /\ clicked' = {}
  /\ diagRan' = FALSE
  /\ diagPage' = [f \in Frames |-> [alive |-> TRUE, elems |-> {}]]
  /\ diagLog' = [f \in Frames |-> {}]
  /\ scanResults' = << >>
  /\ allFields' = << >>
  /\ oracleCalls' = 0
  /\ wfMapping' = << >>
  /\ fillCalls' = 0
  /\ stepFillResults' = << >>

\* loop head with the flag clear: onStepStart(step), executeStep(step) up to
\* its first await (executeWait enters its loop: 0 < timeout, flag clear)
StartStep ==
  /\ pc = "loop"
  /\ idx <= Len(workflow)
  /\ ~LoopSeesAbort
  /\ LET step == workflow[idx] IN
       /\ events' = Append(events, StartEvent(idx))
       /\ stepStatuses' = SetStatus(stepStatuses, step, "running")
       /\ pc' = FirstAwait(step)
  /\ ResetLocals
  /\ lastResult' = NoStepResult
  /\ UNCHANGED <<uiStatus, executorRef, workflow, aborted, idx, returned, lastLog,
                 slept, fillVars>>

\* what an action that settles the current step leaves alone
settleFrame == <<executorRef, workflow, aborted, slept, fillVars>>

\* if (!step.selector) return { success: false, message: 'No selector
\* provided ...' }: executeStep's promise is already settled when it is
\* awaited, so nothing of the side panel runs in between
NoSelectorReturns ==
  /\ pc = "no_selector"
  /\ StepReturns(FALSE, "no_selector")
  /\ UNCHANGED <<settleFrame, probe, clicked, diagRan, diagPage, diagLog, autoVars>>

(* ---- NAVIGATE_CLICK / NAVIGATE_CLICK_IFRAME ---- *)
\* a click that looks into every frame
ClickFoundAnywhere(p) == AnyMatch(p)
\* const result = results[0]?.result; if (result?.found)
ClickFound(p) == p[1] = "match"

\* executeClick: the script runs in the top frame only
ClickReturns ==
  /\ pc = "click"
  /\ \E p \in Probes :
       /\ probe' = p
       /\ clicked' = (IF p[1] = "match" THEN {1} ELSE {})
       /\ StepReturns(ClickFound(p),
                      CASE p[1] = "match" -> "clicked"
                        [] p[1] = "nomatch" -> "not_found"
                        [] OTHER -> "click_failed")
  /\ UNCHANGED <<settleFrame, diagRan, diagPage, diagLog, autoVars>>

\* a test of the first entry only
IframeClickedInTop(p) == p[1] = "match"
\* results.some(r => r.result?.found && r.result?.clicked)
IframeClicked(p) == \E f \in Frames : p[f] = "match"

\* executeClickIframe: allFrames, every frame holding a match clicks it
ClickIframeReturns ==
  /\ pc = "click_iframe"
  /\ \E p \in Probes :
       /\ probe' = p
       /\ clicked' = {f \in Frames : p[f] = "match"}
       /\ StepReturns(IframeClicked(p),
                      IF IframeClicked(p) THEN "clicked_iframe" ELSE "not_found")
  /\ UNCHANGED <<settleFrame, diagRan, diagPage, diagLog, autoVars>>

\* a chrome.scripting.executeScript promise rejects: the error reaches the
\* catch block of executeWorkflow
ScriptRejects ==
  /\ pc \in {"click", "click_iframe", "wait_poll", "wait_diag", "scan", "fill", "debug"}
  /\ StepThrows("script_error")
  /\ UNCHANGED <<settleFrame, probe, clicked, diagRan, diagPage, diagLog, autoVars>>

(* ---- NAVIGATE_WAIT ---- *)
\* const timeout = step.timeout || 5000
Budget(step) ==
  IF step.timeout = Undefined \/ step.timeout = 0 THEN DefaultTimeout ELSE step.timeout

\* Date.now() - startTime after await this.sleep(pollInterval)
SleepFrozen(e) == e
SleepAdvance(e) == e + PollInterval

\* results.some(r => r.result?.found) over the frames of the tab
TopFrameFound(p) == p[1] = "match"
PollFound(p) == AnyMatch(p)

\* one poll returns after d ms: found => success, else sleep(pollInterval)
WaitPollReturns ==
  /\ pc = "wait_poll"
  /\ \E p \in Probes, d \in {0, PollInterval} :
       /\ probe' = p
       /\ IF PollFound(p)
          THEN StepReturns(TRUE, "element_found")
          ELSE /\ pc' = "wait_sleep"
               /\ elapsed' = elapsed + d
               /\ UNCHANGED <<uiStatus, stepStatuses, idx, returned, events,
                              lastLog, lastResult>>
  /\ UNCHANGED <<settleFrame, clicked, diagRan, diagPage, diagLog, autoVars>>

\* the sleep ends, elapsed < timeout, flag clear: the next poll is issued
WaitNextPoll ==
  /\ pc = "wait_sleep"
  /\ elapsed' = SleepAdvance(elapsed)
  /\ elapsed' < Budget(workflow[idx])
  /\ ~aborted
  /\ pc' = "wait_poll"
  /\ UNCHANGED <<uiVars, workflow, aborted, idx, returned, events, lastLog,
                 lastResult, slept, probe, clicked, diagRan, diagPage, diagLog,
                 autoVars, fillVars>>

\* the sleep ends, elapsed < timeout, flag set: return {false, 'Aborted'}
WaitAborted ==
  /\ pc = "wait_sleep"
  /\ SleepAdvance(elapsed) < Budget(workflow[idx])
  /\ aborted
  /\ StepReturns(FALSE, "aborted")
  /\ UNCHANGED <<settleFrame, probe, clicked, diagRan, diagPage, diagLog,
                 autoVars>>

\* the sleep ends with the budget used up: the diagnostics script is issued
WaitTimedOut ==
  /\ pc = "wait_sleep"
  /\ elapsed' = SleepAdvance(elapsed)
  /\ elapsed' >= Budget(workflow[idx])
  /\ pc' = "wait_diag"
  /\ UNCHANGED <<uiVars, workflow, aborted, idx, returned, events, lastLog,
                 lastResult, slept, probe, clicked, diagRan, diagPage,
                 diagLog, autoVars, fillVars>>

\* interactive elements of a page, by what the diagnostics look at: the tag,
\* whether it has an id or class at all, and whether that id or class
\* contains category, menu or Clinical
DiagElems ==
  { [tag |-> "a",      idOrClass |-> TRUE,  navPattern |-> FALSE],
    [tag |-> "input",  idOrClass |-> TRUE,  navPattern |-> FALSE] }

DiagFrames ==
  { [alive |-> FALSE, elems |-> {}] } \cup
  { [alive |-> TRUE, elems |-> S] : S \in SUBSET DiagElems }

\* querySelectorAll('[id*="category"], [class*="category"], ..., a, button')
\* filtered by if (el.id || el.className)
NavElements(elems) ==
  { e \in elems : (e.tag \in {"a", "button"} \/ e.navPattern) /\ e.idOrClass }

\* the diagnostics return: each answering frame's elements are logged, then
\* the step fails with the timeout message
WaitDiagReturns ==
  /\ pc = "wait_diag"
  /\ \E dp \in [Frames -> DiagFrames] :
       /\ diagPage' = dp
       /\ diagLog' = [f \in Frames |->
                        IF dp[f].alive THEN NavElements(dp[f].elems) ELSE {}]
  /\ diagRan' = TRUE
  /\ StepReturns(FALSE, "timeout")
  /\ UNCHANGED <<settleFrame, probe, clicked, autoVars>>


(* ---- AI_AUTO_FILL ---- *)
\* one frame's scan: no result, or the descriptors found (by identity),
\* in document order
ScanFrames ==
  { [alive |-> FALSE, fields |-> << >>] } \cup
  { [alive |-> TRUE, fields |-> fs] : fs \in {<< >>, <<IdA>>, <<IdB, IdA>>} }

\* a test that never finds the merged scan empty
NoFieldsFoundNever(fields) == FALSE
\* if (allFields.length === 0)
NoFieldsFound(fields) == Len(fields) = 0

\* the scan returns: no field at all fails the step, else generateMapping
\* is called with the merged schema
ScanReturns ==
  /\ pc = "scan"
  /\ \E scan \in [Frames -> ScanFrames] :
       /\ scanResults' = scan
       /\ allFields' = FlatMapFields(scan, 1)
       /\ IF NoFieldsFound(allFields')
          THEN StepReturns(FALSE, "no_fields")
          ELSE /\ pc' = "oracle"
               /\ UNCHANGED <<uiStatus, stepStatuses, idx, returned, events,
                              lastLog, lastResult, elapsed>>
  /\ oracleCalls' = (IF NoFieldsFound(allFields') THEN oracleCalls
                     ELSE oracleCalls + 1)
  /\ UNCHANGED <<settleFrame, probe, clicked, diagRan, diagPage,
                 diagLog, wfMapping, fillCalls, stepFillResults>>

\* the parsed object holds a value that is not a string
HasNonString(m) == \E i \in DOMAIN m : ~IsString(m[i].value)

\* mappings the oracle may answer with: the empty one, mappings of strings,
\* and an object holding a number ({"a": 5}: extractJSON returns whatever
\* JSON.parse returns)
OracleMappings ==
  {<< >>} \cup FillMappings \cup
  { <<[id |-> IdA, value |-> NonString(<<"5">>)]>> }

\* const mappedCount = Object.keys(mapping).length; if (mappedCount === 0)
NothingMappedNever(m) == FALSE
NothingMapped(m) == Len(m) = 0

\* generateMapping resolves: an empty mapping ends the step with success,
\* any other is handed to the write-back script in all frames
OracleReturns ==
  /\ pc = "oracle"
  /\ \E m \in OracleMappings :
       /\ wfMapping' = m
       /\ IF NothingMapped(m)
          THEN StepReturns(TRUE, "no_matches") /\ fillCalls' = fillCalls
          ELSE /\ pc' = "fill"
               /\ fillCalls' = fillCalls + 1
               /\ UNCHANGED <<uiStatus, stepStatuses, idx, returned, events,
                              lastLog, lastResult, elapsed>>
  /\ UNCHANGED <<settleFrame, probe, clicked, diagRan, diagPage,
                 diagLog, scanResults, allFields, oracleCalls, stepFillResults>>

\* the errors generateMapping rejects with: the request failed
\* (generateContent or response.text() threw), 'No text response from AI',
\* 'Failed to parse AI response as JSON'; all are Error instances
OracleErrors == {"request_failed", "no_text", "parse_failed"}

\* generateMapping rejects: the error reaches the catch block of
\* executeWorkflow, which completes the step with the error's message
OracleThrows ==
  /\ pc = "oracle"
  /\ \E e \in OracleErrors : StepThrows(e)
  /\ UNCHANGED <<settleFrame, probe, clicked, diagRan, diagPage, diagLog, autoVars>>

\* elements a frame may hold for an identity when a workflow step writes
WorkflowElems ==
  { NoElem,
    Elem("text", << >>, FALSE, NoOpts, TRUE, FALSE),
    Elem("select", << >>, FALSE, OptsMale, TRUE, FALSE) }

\* a frame at write-back: one that returns no result, or its document
WorkflowFrames ==
  { [alive |-> FALSE, doc |-> [i \in Ids |-> NoElem]] } \cup
  { [alive |-> TRUE, doc |-> d] : d \in [Ids -> WorkflowElems] }

\* fillResults.flatMap(r => r.result?.filled || [])
RECURSIVE FlatMapFilled(_, _)
FlatMapFilled(results, i) ==
  IF i > Len(results) THEN << >>
  ELSE (IF results[i].responded THEN results[i].filled ELSE << >>)
         \o FlatMapFilled(results, i + 1)

\* a step that succeeds only if something was filled
FillSucceededIfAny(filled) == Len(filled) > 0
\* return { success: true, message: `Filled ${filledFields.length} fields`, ... }
FillSucceeded(filled) == TRUE

\* the write-back returns: the step succeeds with the merged filled list
FillReturns ==
  /\ pc = "fill"
  /\ \E fs \in [Frames -> WorkflowFrames] :
       LET results == [f \in Frames |->
                         IF fs[f].alive
                         THEN FrameFill("workflow", fs[f].doc, wfMapping).result
                         ELSE NoResult]
       IN /\ stepFillResults' = results
          /\ Settle([step |-> idx,
                     success |-> FillSucceeded(FlatMapFilled(results, 1)),
                     message |-> "filled",
                     filled |-> FlatMapFilled(results, 1)], "step_failed")
  /\ UNCHANGED <<settleFrame, probe, clicked, diagRan, diagPage, diagLog,
                 scanResults, allFields, oracleCalls, wfMapping, fillCalls>>

(* ---- DEBUG_SCAN ---- *)
\* executeDebugScan: logs what each answering frame holds, always succeeds
DebugReturns ==
  /\ pc = "debug"
  /\ StepReturns(TRUE, "debug_done")
  /\ UNCHANGED <<settleFrame, probe, clicked, diagRan, diagPage, diagLog, autoVars>>

(* ---- post-delay ---- *)
\* await this.sleep(step.waitAfter) ends: the loop turns to the next step
SleepDone ==
  /\ pc = "sleep"
  /\ slept' = slept \cup {idx}
  /\ idx' = idx + 1
  /\ pc' = "loop"
  /\ UNCHANGED <<uiVars, workflow, aborted, returned, events, lastLog, lastResult,
                 stepVars, fillVars>>

\* the steps the executor and the promises it awaits take by themselves
ExecutorNext ==
  \/ TabFound
  \/ TabMissing
  \/ RunCompletes
  \/ RunAborted
  \/ StartStep
  \/ NoSelectorReturns
  \/ ClickReturns
  \/ ClickIframeReturns
  \/ ScriptRejects
  \/ WaitPollReturns
  \/ WaitNextPoll
  \/ WaitAborted
  \/ WaitTimedOut
  \/ WaitDiagReturns
  \/ ScanReturns
  \/ OracleReturns
  \/ OracleThrows
  \/ FillReturns
  \/ DebugReturns
  \/ SleepDone

Next ==
  \/ HandleRunWorkflow
  \/ Abort
  \/ ExecutorNext

Spec == Init /\ [][Next]_vars

\* every promise the run awaits settles and every timer fires
LiveSpec == Init /\ [][Next]_vars /\ WF_vars(ExecutorNext)


(* ---------------------- claims on the workflow run --------------------- *)
\* the step started last (0 before any)
Current == (Len(events) + 1) \div 2

Started(k) == \E j \in DOMAIN events : events[j] = StartEvent(k)

StepAwaits == AwaitPoints \ {"query", "sleep"}

\* C4: steps are started strictly in the order of the step sequence and
\* never concurrently: the callbacks delivered are start 1, complete 1,
\* start 2, complete 2, ... with every completion before a later start a
\* success, no step started twice, and the run suspended inside a step only
\* on the step started last, whose completion is still to come.
C4_StepsInOrder ==
  /\ \A j \in DOMAIN events :
       IF j % 2 = 1
       THEN events[j] = StartEvent((j + 1) \div 2)
       ELSE /\ events[j].ev = "complete"
            /\ events[j].step = j \div 2
            /\ j < Len(events) => events[j].ok
  /\ Len(events) <= 2 * Len(workflow)
  /\ pc \in StepAwaits => (Len(events) % 2 = 1 /\ idx = Current)

\* a second step was started after the first one succeeded
C4_Witness ==
  /\ Len(events) >= 3
  /\ events[3] = StartEvent(2)
  /\ pc \in StepAwaits

\* C5: when a step returns a failing result or throws, the run halts at
\* once: its failed completion is the last callback, no later step is
\* started, no post-delay is slept for it, and executeWorkflow has returned
\* false.
C5_FailureHalts ==
  \A j \in DOMAIN events :
    (events[j].ev = "complete" /\ ~events[j].ok) =>
      /\ j = Len(events)
      /\ returned = "false"
      /\ pc = "returned"
      /\ events[j].step \notin slept
      /\ \A k \in DOMAIN workflow : k > events[j].step => ~Started(k)

\* the first of two steps, which has a post-delay configured, threw
C5_Witness ==
  /\ Len(workflow) = 2
  /\ workflow[1].waitAfter # 0
  /\ Len(events) = 2
  /\ ~events[2].ok
  /\ lastResult.message = "script_error"
  /\ returned = "false"

\* how the run ended through the abort flag: at a loop head, or inside a
\* wait step's poll loop
EndedByAbort ==
  /\ returned = "false"
  /\ lastLog = "aborted" \/ lastResult.message = "aborted"

\* C6: after an abort ended the run, every step that had not started is
\* skipped, no step is marked failed, and the run's status is aborted.
C6_AbortLeavesSkipped ==
  EndedByAbort =>
    /\ uiStatus = "aborted"
    /\ \A k \in DOMAIN stepStatuses :
         /\ ~Started(k) => stepStatuses[k] = "skipped"
         /\ stepStatuses[k] # "failed"

\* C7: once the abort flag is set, no onStepStart callback is delivered.
C7_NoStartAfterAbort ==
  [][aborted =>
       \A j \in DOMAIN events' : j > Len(events) => events'[j].ev # "start"]_vars

\* the flag was set while a step or a post-delay was in progress, and the
\* run ended at the next loop head with a step still to start
C7_Witness ==
  /\ aborted
  /\ lastLog = "aborted"
  /\ Len(events) > 0
  /\ Len(events) < 2 * Len(workflow)

\* C8: every run of executeWorkflow terminates, whatever the configuration
\* and the page do, provided every awaited call settles and timers fire.
C8_RunTerminates == (executorRef /\ returned = "none") ~> (returned # "none")

\* a wait whose target never appeared has run out and the run has returned
C8_Witness ==
  /\ returned = "false"
  /\ lastResult.message = "timeout"
  /\ Budget(workflow[lastResult.step]) = DefaultTimeout

\* C9: a wait step succeeds at the first poll in which any frame, top or
\* nested, reports a match: after such a poll the step has completed with
\* success "element found", with no further poll and without diagnostics;
\* and it reports the element found only after such a poll.
C9_WaitSucceedsOnFirstMatch ==
  (Current > 0 /\ workflow[Current].action = "NAVIGATE_WAIT") =>
    /\ AnyMatch(probe) =>
         /\ events[Len(events)] = CompleteEvent(Current, TRUE)
         /\ lastResult.step = Current
         /\ lastResult.message = "element_found"
         /\ ~diagRan
         /\ ~(pc \in {"wait_poll", "wait_sleep", "wait_diag"} /\ idx = Current)
    /\ (lastResult.step = Current /\ lastResult.message = "element_found")
         => AnyMatch(probe)

\* the match was in a nested frame only
C9_Witness ==
  /\ Current > 0
  /\ workflow[Current].action = "NAVIGATE_WAIT"
  /\ lastResult.message = "element_found"
  /\ probe[1] # "match"
  /\ \E f \in Frames : probe[f] = "match"

\* C10: a wait that runs out fails with the timeout message and its
\* diagnostics list at least one element whenever some answering frame
\* holds an interactive element (button, link, input or select).
C10_TimeoutDiagnosticsNonEmpty ==
  lastResult.message = "timeout" =>
    /\ ~lastResult.success
    /\ diagRan
    /\ (\E f \in Frames : diagPage[f].alive /\ diagPage[f].elems # {})
         => (\E f \in Frames : diagLog[f] # {})

(* ------------------------- claims on the fill -------------------------- *)
NoDuplicates(list) == Cardinality(Range(list)) = Len(list)

\* frames whose injected function returned a result
Responded == {f \in DOMAIN fillResults : fillResults[f].responded}

SucceededIn(id) == {f \in Responded : id \in Range(fillResults[f].filled)}
FailedIn(id) == {f \in Responded : id \in Range(fillResults[f].failed)}
LocatedIn(id) == {f \in Responded : Lookup(page[f], id) # NoElem}

\* C1: after any fill (side panel auto-fill, quick-fill, content script
\* fillForm), for every mapping and every combination of per-frame results,
\* the outcome's filled, failed and notFound lists are pairwise disjoint,
\* hold no identity twice, and together hold exactly the mapping's keys.
C1_OutcomePartition ==
  fpc = "done" =>
    LET F == Range(aggregated.filled)
        X == Range(aggregated.failed)
        N == Range(aggregated.notFound)
    IN /\ F \cap X = {} /\ F \cap N = {} /\ X \cap N = {}
       /\ F \cup X \cup N = Keys(mapping)
       /\ NoDuplicates(aggregated.filled)
       /\ NoDuplicates(aggregated.failed)
       /\ NoDuplicates(aggregated.notFound)

\* an identity failed in an earlier frame and filled in a later one, while
\* another key of the mapping is in no frame at all
C1_Witness ==
  /\ fpc = "done"
  /\ writer = "auto"
  /\ \E id \in Keys(mapping) : \E f \in FailedIn(id) : \E g \in SucceededIn(id) : f < g
  /\ aggregated.notFound # << >>

\* C2: an identity is reported filled whenever some frame reported success
\* for it, whatever the frame order, and reported failed only when no frame
\* succeeded and some frame failed.
C2_FilledIfAnySuccess ==
  (fpc = "done" /\ writer \in {"auto", "quick"}) =>
    \A id \in Keys(mapping) :
      /\ SucceededIn(id) # {} => id \in Range(aggregated.filled)
      /\ id \in Range(aggregated.failed) =>
           (SucceededIn(id) = {} /\ FailedIn(id) # {})

\* C3: an identity is reported notFound exactly when no frame that answered
\* located an element for it.
C3_NotFoundIffNowhere ==
  fpc = "done" =>
    \A id \in Keys(mapping) :
      id \in Range(aggregated.notFound) <=> LocatedIn(id) = {}


(* ------------------------ claims on AI_AUTO_FILL ------------------------ *)
CurrentIsFill == Current > 0 /\ workflow[Current].action = "AI_AUTO_FILL"

\* C11: a fill step whose oracle call returns an empty mapping succeeds and
\* writes nowhere: the write-back script is never started with an empty
\* mapping, and the step completes with success, no call of the write-back
\* script, and the run going on (it can only be stopped by an abort).
C11_EmptyMappingSucceeds ==
  /\ pc = "fill" => Len(wfMapping) > 0
  /\ fillCalls > 0 => Len(wfMapping) > 0
  /\ lastResult.message = "no_matches" =>
       /\ lastResult.success
       /\ wfMapping = << >>
       /\ fillCalls = 0
       /\ events[Len(events)] = CompleteEvent(lastResult.step, TRUE)
       /\ pc \in {"sleep", "loop", "returned"}
       /\ returned = "false" => lastLog = "aborted"

\* the first of two steps got an empty mapping and the loop is at the second
C11_Witness ==
  /\ lastResult.message = "no_matches"
  /\ lastResult.step = 1
  /\ Len(workflow) = 2
  /\ pc = "loop"
  /\ idx = 2
  /\ ~aborted

\* C12: when the oracle call of a fill step fails, the oracle is not called
\* again (one call per step at most), no write-back is started,
\* onStepComplete is delivered for the step with success false and the
\* error's own message, and executeWorkflow returns false at once.
C12_OracleFailureHalts ==
  /\ [](oracleCalls <= 1)
  /\ [][(pc = "oracle" /\ pc' # "oracle" /\ wfMapping' = << >>
           /\ lastResult'.message # "no_matches") =>
          /\ lastResult'.message \in OracleErrors
          /\ ~lastResult'.success
          /\ lastResult'.step = idx
          /\ events' = Append(events, CompleteEvent(idx, FALSE))
          /\ oracleCalls' = 1
          /\ fillCalls' = 0
          /\ returned' = "false"
          /\ pc' = "returned"]_vars

\* the answer of the oracle could not be parsed, in the first of two steps
C12_Witness ==
  /\ lastResult.message = "parse_failed"
  /\ lastResult.step = 1
  /\ Len(workflow) = 2
  /\ returned = "false"
  /\ oracleCalls = 1
  /\ fillCalls = 0

\* C13: an oracle result holding a value that is not a string is rejected
\* before any write: the write-back script is not started and the step's
\* result is a failure with a mapping-format message.
C13_NonStringRejected ==
  HasNonString(wfMapping) =>
    /\ fillCalls = 0
    /\ pc # "fill"
    /\ lastResult.step = Current =>
         (~lastResult.success /\ lastResult.message = "mapping_format")

\* C19: in the result of a fill step each identity is in filled at most
\* once, so the filled count never exceeds the number of keys of the mapping.
C19_FilledOncePerIdentity ==
  (CurrentIsFill /\ lastResult.step = Current) =>
    /\ NoDuplicates(lastResult.filled)
    /\ Len(lastResult.filled) <= Len(wfMapping)


(* ----------------------- claims on a single write ----------------------- *)
\* the events a write added to its widget
Emitted(w) == SubSeq(w.after.events, Len(w.before.events) + 1, Len(w.after.events))

Mutated(w) ==
  w.after.value # w.before.value \/ w.after.checked # w.before.checked

WidgetState(el) ==
  [kind |-> el.kind, value |-> el.value, checked |-> el.checked, opts |-> el.opts]

Ran(w) == ~w.before.throws

TextContains(opt, value) == Includes(ToLowerCase(opt.text), ToLowerCase(value))

\* the option the stated precedence picks (0: none): the first whose value
\* equals the requested value, else the first whose text contains it
SelectChoice(opts, value) ==
  IF \E i \in DOMAIN opts : opts[i].value = value
  THEN CHOOSE i \in DOMAIN opts :
         opts[i].value = value /\ \A j \in 1..(i - 1) : opts[j].value # value
  ELSE IF \E i \in DOMAIN opts : TextContains(opts[i], value)
  THEN CHOOSE i \in DOMAIN opts :
         TextContains(opts[i], value)
           /\ \A j \in 1..(i - 1) : ~TextContains(opts[j], value)
  ELSE 0

\* C14: every writer, writing to a select, picks the first option whose value
\* equals the requested value if there is one anywhere in the list, else the
\* first option whose text contains it case-insensitively, and reports no
\* fill and leaves the select alone if there is neither.
C14_SelectPrecedence ==
  \A n \in DOMAIN writes :
    LET w == writes[n]
        i == SelectChoice(w.before.opts, request.value)
    IN (w.before.kind = "select" /\ Ran(w)) =>
         IF i # 0
         THEN w.after.value = w.before.opts[i].value /\ w.out = "filled"
         ELSE w.after.value = w.before.value /\ w.out # "filled"

\* C15: every writer, writing to a checkbox, leaves it checked exactly when
\* the requested value in lower case is one of "true", "1", "yes", "on".
C15_CheckboxParsing ==
  \A n \in DOMAIN writes :
    LET w == writes[n] IN
      (w.before.kind = "checkbox" /\ Ran(w)) =>
        (w.after.checked <=> ToLowerCase(request.value) \in TruthyStrings)

\* the value cannot be applied to the widget
NotApplicable(el, fieldId, value) ==
  \/ el.kind = "radio" /\ el.value # value /\ ~(el.byId /\ fieldId = value)
  \/ el.kind = "select" /\ SelectChoice(el.opts, value) = 0
  \/ el.kind = "div"

\* C16: a write whose value was not applied (a radio whose value and id both
\* differ from it, a select with no matching option, an element that is no
\* input, textarea or select) never reports the identity filled.
C16_NotAppliedNotFilled ==
  \A n \in DOMAIN writes :
    LET w == writes[n] IN
      (w.before.kind \in {"radio", "select", "div"} /\ ~Mutated(w)
         /\ NotApplicable(w.before, request.fieldId, request.value))
        => w.out # "filled"

\* C17: a write that mutates its widget ends with exactly the events focus,
\* input, change, blur in that order (preceded at most by the focus event of
\* the element.focus() made before the mutation), and a write that reports
\* failure emits no event at all on the widget.
C17_EventsOnMutationOnly ==
  \A n \in DOMAIN writes :
    LET w == writes[n] IN
      /\ Mutated(w) =>
           \/ Emitted(w) = DispatchSeq
           \/ Emitted(w) = <<"focus">> \o DispatchSeq
      /\ w.out = "failed" => Emitted(w) = << >>

\* C18: writing the same value twice reports the same result both times and
\* leaves the widget in the state the first write left it in.
C18_WriteIdempotent ==
  Len(writes) >= 2 =>
    /\ writes[2].out = writes[1].out
    /\ WidgetState(writes[2].after) = WidgetState(writes[1].after)

\* the content script wrote a select twice, and the first write changed it
C18_Witness ==
  /\ Len(writes) = 2
  /\ request.writer = "content"
  /\ writes[1].before.kind = "select"
  /\ writes[1].out = "filled"
  /\ writes[1].after.value # writes[1].before.value
  /\ writes[2].out = "filled"


(* ------------------- claims on the fill of one context ------------------ *)
\* frames in which the fill function was run
FilledFrames == {f \in DOMAIN fillResults :
                   fillResults[f].responded \/ fillResults[f].threw}

\* C20: within a context every key of the mapping is looked up and written
\* whatever happened to the keys before it, and no error escapes the fill of
\* the context: no frame's fill threw, and every plain text input a frame
\* holds under a key of the mapping has been written.
C20_KeysIndependent ==
  fpc \in {"done", "error"} =>
    \A f \in DOMAIN fillResults :
      /\ ~fillResults[f].threw
      /\ f \in FilledFrames =>
           \A id \in Keys(mapping) :
             (Lookup(page[f], id).kind = "text" /\ ~Lookup(page[f], id).throws)
               => Lookup(page[f], id).events # << >>


(* ------------------- claims on the fanned-out calls -------------------- *)
\* a frame without result taken as a frame that holds no field
ScanRevived ==
  [f \in DOMAIN scanResults |->
     IF scanResults[f].alive THEN scanResults[f] ELSE [alive |-> TRUE, fields |-> << >>]]

\* a frame without result taken as a frame in which nothing was written
FillRevived ==
  [f \in DOMAIN stepFillResults |->
     IF stepFillResults[f].responded THEN stepFillResults[f] ELSE EmptyResult]

\* the lists of the frames one after the other, in the frames' order
RECURSIVE Concat(_, _)
Concat(lists, i) ==
  IF i > Len(lists) THEN << >> ELSE lists[i] \o Concat(lists, i + 1)

\* C21: in the scan and in the write-back of a fill step, a frame that
\* reports no result does not end the batch: what the other frames returned
\* is merged, and the merged fields, the step's verdict on them and the
\* merged filled list are those of a page whose failing frame held nothing.
C21_DeadContextFolded ==
  /\ scanResults # << >> =>
       /\ allFields = Concat([f \in DOMAIN ScanRevived |-> ScanRevived[f].fields], 1)
       /\ lastResult.message = "no_fields" <=> allFields = << >>
       /\ allFields # << >> => oracleCalls = 1
  /\ stepFillResults # << >> =>
       /\ lastResult.success
       /\ lastResult.filled =
            Concat([f \in DOMAIN FillRevived |-> FillRevived[f].filled], 1)

\* the top frame gave no result to the scan nor to the write-back, and the
\* step filled what the nested frame holds
C21_Witness ==
  /\ scanResults # << >>
  /\ stepFillResults # << >>
  /\ ~scanResults[1].alive
  /\ ~stepFillResults[1].responded
  /\ allFields # << >>
  /\ lastResult.filled # << >>


(* ------------------- claims on the scan of an element ------------------ *)
\* the six strategies of label resolution, each giving its trimmed text
Strategies(el) ==
  << IF el.id # << >> THEN Trim(el.forLabel) ELSE << >>,
     Trim(el.enclosing.own),
     IF el.prev.tag = "LABEL" THEN Trim(el.prev.text) ELSE << >>,
     IF el.parentTag = "TD" /\ el.parentPrev.tag = "TD"
     THEN Trim(el.parentPrev.text) ELSE << >>,
     IF Trim(el.ariaLabel) # << >> THEN Trim(el.ariaLabel) ELSE Trim(el.labelledBy),
     Trim(el.title) >>

RECURSIVE FirstNonEmpty(_, _)
FirstNonEmpty(texts, i) ==
  IF i > Len(texts) THEN << >>
  ELSE IF texts[i] # << >> THEN texts[i] ELSE FirstNonEmpty(texts, i + 1)

\* C23: the label a scanner gives a candidate is the text of the first of
\* the six strategies (label-for, enclosing label without its controls,
\* preceding label sibling, preceding table cell, aria-label or
\* aria-labelledby, title) that is non-empty after trimming, and the empty
\* string only if none is; a strategy whose text is empty or blank never
\* stops the chain.
C23_ResolveLabelPriority ==
  (descriptor.scanned /\ descriptor.candidate) =>
    descriptor.label = FirstNonEmpty(Strategies(element), 1)

\* C24: every scanner takes an element as a candidate exactly when it is
\* not display:none, not visibility:hidden, not of zero opacity, has a width
\* and a height, and is not an input of type hidden, submit, button, reset,
\* file or image.
C24_SameCandidacyFilter ==
  descriptor.scanned =>
    (descriptor.candidate <=>
       /\ element.display # "none"
       /\ element.visibility # "hidden"
       /\ element.opacity # "0"
       /\ element.width # 0
       /\ element.height # 0
       /\ ~(element.tag = "input" /\
            element.type \in {"hidden", "submit", "button", "reset", "file", "image"}))


(* --------------------- claims on the merged schema --------------------- *)
\* the frames that answered the k-th scan
Answering(k) ==
  {merged[k].results[j].frame : j \in {j \in TabFrames : merged[k].results[j].alive}}

\* the descriptors of the answering frames, frame after frame in the order
\* of the frames in the tab
InFrameOrder(k) ==
  Concat([f \in TabFrames |-> IF f \in Answering(k) THEN tabFields[f] ELSE << >>], 1)

\* C22: the schema given to the oracle is the frames' descriptor sequences
\* one after the other in the enumeration order of the frames, each in its
\* own order, nothing dropped and nothing deduplicated by identity; two
\* scans of the same page state answered by the same frames give the same
\* sequence.
C22_MergedInEnumerationOrder ==
  /\ \A k \in DOMAIN merged : merged[k].allFields = InFrameOrder(k)
  /\ (Len(merged) = 2 /\ Answering(1) = Answering(2))
       => merged[1].allFields = merged[2].allFields


(* -------------------- claims on the kinds of step ---------------------- *)
\* the step started last has been settled by what its injected script
\* returned (not by a rejected call, nor for want of a selector)
ScriptAnswered(action) ==
  /\ Current > 0
  /\ workflow[Current].action = action
  /\ lastResult.step = Current
  /\ lastResult.message \notin {"script_error", "no_selector"}

\* C25: a DEBUG_SCAN step always succeeds, whatever the page and whatever
\* the frames return: every completion of such a step is a success.
C25_DebugScanSucceeds ==
  \A j \in DOMAIN events :
    (events[j].ev = "complete" /\ workflow[events[j].step].action = "DEBUG_SCAN")
      => events[j].ok

\* C26: onStepComplete of a step is delivered before its post-delay is
\* slept; a post-delay is slept only after a success of a step that has one
\* configured; and the next step is started, or the run reported complete,
\* only once the post-delay of the step before has been slept in full.
C26_PostDelayObserved ==
  /\ pc = "sleep" =>
       /\ workflow[idx].waitAfter # 0
       /\ events[Len(events)] = CompleteEvent(idx, TRUE)
       /\ idx \notin slept
  /\ \A k \in slept :
       /\ workflow[k].waitAfter # 0
       /\ \E j \in DOMAIN events : events[j] = CompleteEvent(k, TRUE)
  /\ \A k \in DOMAIN workflow :
       (workflow[k].waitAfter # 0 /\
        (Started(k + 1) \/ (k = Len(workflow) /\ returned = "true")))
         => k \in slept

\* the first step's post-delay was slept and the second step started
C26_Witness ==
  /\ 1 \in slept
  /\ Started(2)
  /\ workflow[1].waitAfter # 0

C28_ClickRootOnly ==
  ScriptAnswered("NAVIGATE_CLICK") =>
    /\ lastResult.success <=> probe[1] = "match"
    /\ clicked = (IF probe[1] = "match" THEN {1} ELSE {})
    /\ ~lastResult.success => lastResult.message \in {"not_found", "click_failed"}

\* the only match was in a nested frame, and the step failed
C28_Witness ==
  /\ ScriptAnswered("NAVIGATE_CLICK")
  /\ ~lastResult.success
  /\ lastResult.message = "not_found"
  /\ probe[1] = "nomatch"
  /\ AnyMatch(probe)

(* ------------------- claims on the statuses shown ---------------------- *)
\* C29: the status of each step moves only pending -> running -> success
\* or pending -> running -> failed: at most one step is running, every step
\* before it is success and every step after it pending, and a step that is
\* success or failed stays so for the rest of the run.
C29_StatusTransitions ==
  /\ [](\A k \in DOMAIN stepStatuses :
          /\ stepStatuses[k] \in {"pending", "running", "success", "failed"}
          /\ stepStatuses[k] = "running" =>
               /\ \A j \in DOMAIN stepStatuses :
                    /\ j < k => stepStatuses[j] = "success"
                    /\ j > k => stepStatuses[j] = "pending"
          /\ stepStatuses[k] = "failed" =>
               /\ \A j \in DOMAIN stepStatuses :
                    /\ j < k => stepStatuses[j] = "success"
                    /\ j > k => stepStatuses[j] = "pending")
  /\ [][\A k \in DOMAIN stepStatuses :
          \/ stepStatuses'[k] = stepStatuses[k]
          \/ stepStatuses[k] = "pending" /\ stepStatuses'[k] = "running"
          \/ stepStatuses[k] = "running" /\ stepStatuses'[k] \in {"success", "failed"}]_vars

\* the first step is success and the second is running
C29_Witness ==
  /\ Len(stepStatuses) = 2
  /\ stepStatuses[1] = "success"
  /\ stepStatuses[2] = "running"


(* ------------------ claims on the configurations ----------------------- *)
\* where a step of the SOAP workflow stands in it, by its description
SoapPosition(description) ==
  CHOOSE i \in DOMAIN SoapSteps : SoapSteps[i].description = description

\* C30: every configuration the module provides or derives has the step ids
\* 1, 2, ..., length in sequence order, and a derived one holds steps of the
\* SOAP workflow, unchanged but for the id, in their original relative
\* order.
C30_ContiguousIds ==
  derivation.done =>
    /\ \A i \in DOMAIN derived : derived[i].id = i
    /\ derivation.fn \in {"getTestWorkflow()", "getTestWorkflow", "createWorkflowFromStep"} =>
         /\ \A i \in DOMAIN derived :
              \E j \in DOMAIN SoapSteps : derived[i] = [SoapSteps[j] EXCEPT !.id = i]
         /\ \A i, j \in DOMAIN derived :
              i < j => SoapPosition(derived[i].description)
                         < SoapPosition(derived[j].description)

\* the workflow from step 3 on: six steps, the first being the wait that
\* was third
C30_Witness ==
  /\ derivation = [fn |-> "createWorkflowFromStep", arg |-> 3, done |-> TRUE]
  /\ Len(derived) = 6
  /\ derived[1].description = SoapSteps[3].description
  /\ derived[1].id = 1

C32_AbortEndsWait ==
  [][aborted /\ pc \in {"wait_poll", "wait_sleep"}
       => pc' \notin {"wait_diag"} /\ (pc = "wait_sleep" => pc' # "wait_poll")]_vars

\* the budget as configured: the step's timeout whenever it has one
ConfiguredBudget(step) ==
  IF step.timeout = Undefined THEN DefaultTimeout ELSE step.timeout

\* C33: the budget of a wait step is its configured timeout, whatever its
\* value (0 included), and 5000 ms only when none is configured: a poll is
\* in flight only if it was started with the elapsed time below that budget.
C33_BudgetIsConfiguredTimeout ==
  pc = "wait_poll" => elapsed < ConfiguredBudget(workflow[idx])


(* ----------------- claims on the callbacks of a run -------------------- *)
\* C34: each onStepStart is followed by exactly one onStepComplete for the
\* same step before any other onStepStart and before executeWorkflow
\* returns, whether the step succeeded, failed or threw; no onStepComplete
\* is delivered for a step that was not started.
C34_StartCompletePaired ==
  /\ \A j \in DOMAIN events :
       /\ events[j].ev = "complete" =>
            j > 1 /\ events[j - 1] = StartEvent(events[j].step)
       /\ events[j].ev = "start" /\ j > 1 => events[j - 1].ev = "complete"
  /\ \A j, k \in DOMAIN events :
       events[j].ev = "complete" /\ events[k].ev = "complete"
         /\ events[j].step = events[k].step => j = k
  /\ returned # "none" /\ events # << >> => events[Len(events)].ev = "complete"

\* the second step threw (the oracle's request failed) and the run has
\* returned: start 1, complete 1, start 2, complete 2
C34_Witness ==
  /\ returned = "false"
  /\ Len(events) = 4
  /\ events[3] = StartEvent(2)
  /\ events[4] = CompleteEvent(2, FALSE)
  /\ lastResult.message = "request_failed"


(* ------------------------ claims on the abort -------------------------- *)
\* C35: if the flag was set at any time before executeWorkflow returned,
\* the last step and its post-delay included, executeWorkflow does not
\* return true and does not log the successful completion.
C35_AbortedNeverCompletes ==
  aborted => returned # "true" /\ lastLog # "completed"

\* C36: an abort requested while the status is running sets the flag of the
\* executor that drives the current run: every click on Abort found an
\* executor, and that executor was created by the run under way.
C36_AbortReachesCurrentRun ==
  \A c \in DOMAIN abortClicks :
    /\ abortClicks[c].hit # 0
    /\ executors[abortClicks[c].hit].run = abortClicks[c].run


(* --------------------- claims on the click steps ----------------------- *)
\* C37: a click step over all contexts activates the target in at most one
\* context per execution, even when several contexts hold a match.
C37_ClickedInOneContext ==
  workflow # << >> /\ idx \in DOMAIN workflow
    /\ workflow[idx].action = "NAVIGATE_CLICK_IFRAME" => Cardinality(clicked) <= 1


(* ---------------------- claims on the fill step ------------------------ *)
\* C38: a fill step whose merged scan holds no descriptor fails with the
\* no-fields message, without a call of the oracle and without a write to
\* any context, and the run halts: the oracle is never called on an empty
\* scan, and after such a scan the step is completed as failed, no later
\* step is started and executeWorkflow has returned false.
C38_EmptyScanFails ==
  /\ pc = "oracle" \/ oracleCalls > 0 => allFields # << >>
  /\ CurrentIsFill /\ scanResults # << >> /\ allFields = << >> =>
       /\ lastResult.message = "no_fields"
       /\ ~lastResult.success
       /\ lastResult.step = Current
       /\ oracleCalls = 0
       /\ fillCalls = 0
       /\ stepFillResults = << >>
       /\ events[Len(events)] = CompleteEvent(Current, FALSE)
       /\ pc = "returned"
       /\ returned = "false"
       /\ \A k \in DOMAIN workflow : k > Current => ~Started(k)

\* the first of two steps scanned a tab of which one context answered with
\* no field and the other did not answer
C38_Witness ==
  /\ Len(workflow) = 2
  /\ lastResult.message = "no_fields"
  /\ lastResult.step = 1
  /\ scanResults # << >>
  /\ \E f \in Frames : scanResults[f].alive
  /\ \E f \in Frames : ~scanResults[f].alive
  /\ returned = "false"

\* C39 as stated: once the oracle has returned a mapping, the fill step
\* always succeeds, whatever becomes of the write-back.
C39_MappedStepAlwaysSucceeds ==
  CurrentIsFill /\ (fillCalls > 0 \/ lastResult.message = "no_matches")
    /\ pc # "fill" => lastResult.success

\* C39: once the oracle has returned a mapping and the write-back call has
\* returned, the fill step succeeds whatever the contexts reported, also
\* when no identity of the mapping was filled in any context; the step is
\* completed as successful with the merged filled list and the run goes on
\* to the post-delay or the next loop turn, where only an abort stops it.
C39_WrittenStepSucceeds ==
  CurrentIsFill /\ stepFillResults # << >> =>
    /\ Len(wfMapping) > 0
    /\ lastResult.success
    /\ lastResult.step = Current
    /\ lastResult.filled = FlatMapFilled(stepFillResults, 1)
    /\ events[Len(events)] = CompleteEvent(Current, TRUE)
    /\ pc \in {"sleep", "loop", "returned"}
    /\ returned = "false" => lastLog = "aborted"

\* the first of two steps wrote a mapping of which every context answered
\* and none filled anything, and the loop is at the second step
C39_Witness ==
  /\ Len(workflow) = 2
  /\ stepFillResults # << >>
  /\ \A f \in Frames : stepFillResults[f].responded
  /\ lastResult.step = 1
  /\ lastResult.filled = << >>
  /\ lastResult.success
  /\ pc = "loop"
  /\ idx = 2


(* ------------------ claims on the runs of the side panel --------------- *)
\* C40: once validation has passed, every quick fill or workflow run
\* started from the side panel leaves the processing statuses and ends in
\* done or error, on every path, thrown errors included; while the status
\* is a processing status exactly one handler is under way and no second
\* run is started, and in any other status none is left.
C40_RunEndsAndIsExclusive ==
  /\ [](IF isProcessing THEN Len(handlers) = 1 ELSE handlers = << >>)
  /\ [][isProcessing => runs' = runs]_vars
  /\ (isProcessing ~> status \in {"done", "error"})

\* a workflow run and then a quick fill were started; the quick fill threw
\* and the panel can be used again
C40_Witness ==
  /\ runs = 2
  /\ Len(executors) = 1
  /\ mode = "quick-fill"
  /\ status = "error"
  /\ handlers = << >>

=============================================================================
